---------------------------- MODULE Spec2Model ----------------------------
(***************************************************************************)
(* Model of the Alpha Vantage provider client of the stock research app    *)
(* (src/lib/alphaVantage.ts): the seven resource getters, the response     *)
(* check checkForError, the ticker validator and the numeric parser.       *)
(*                                                                         *)
(* One getter call is two steps: the synchronous prologue up to the        *)
(* `await fetch(...)`, and the continuation that runs when the response    *)
(* has arrived.                                                            *)
(***************************************************************************)
EXTENDS Integers, Sequences, FiniteSets, TLC

(***************************************************************************)
(* Bounds of the model.                                                    *)
(***************************************************************************)
\* longest ticker string handed to a getter
MaxTickerLen == 6
\* most tokens in the comma-separated value of ALPHAVANTAGE_API_KEY
MaxPool == 3

(***************************************************************************)
(* Characters and strings.  A ticker is a sequence of characters.          *)
(***************************************************************************)
LowerLetters == {"a", "b"}
UpperLetters == {"A", "B"}
TickerChars == {"a", "1"}

\* String.prototype.toUpperCase, character by character
toUpperCase(s) ==
  [i \in 1..Len(s) |-> CASE s[i] = "a" -> "A"
                         [] s[i] = "b" -> "B"
                         [] OTHER -> s[i]]

Tickers == UNION {[1..n -> TickerChars] : n \in 0..MaxTickerLen}

(***************************************************************************)
(* Numbers: a JavaScript number, null or NaN.  A finite number is the      *)
(* fraction v/d in lowest terms with d > 0; Infinity carries its sign in v.*)
(***************************************************************************)
Num(n) == [t |-> "num", v |-> n, d |-> 1]
Null == [t |-> "null", v |-> 0, d |-> 1]
NaN == [t |-> "nan", v |-> 0, d |-> 1]
Infinity(sign) == [t |-> "inf", v |-> sign, d |-> 1]

Abs(n) == IF n < 0 THEN 0 - n ELSE n

RECURSIVE Gcd(_, _)
Gcd(a, b) == IF b = 0 THEN a ELSE Gcd(b, a % b)

\* the number n/d (d # 0) in lowest terms
Rat(n, d) ==
  LET g == Gcd(Abs(n), Abs(d))
      num == IF d < 0 THEN 0 - n ELSE n
  IN [t |-> "num", v |-> num \div g, d |-> Abs(d) \div g]

RECURSIVE Pow10(_)
Pow10(k) == IF k = 0 THEN 1 ELSE 10 * Pow10(k - 1)

(***************************************************************************)
(* Strings handed to the numeric parsers, character by character.          *)
(***************************************************************************)
Digits == {"0", "1", "2", "3", "4", "5", "6", "7", "8", "9"}
DigitValue(c) ==
  CASE c = "0" -> 0 [] c = "1" -> 1 [] c = "2" -> 2 [] c = "3" -> 3
    [] c = "4" -> 4 [] c = "5" -> 5 [] c = "6" -> 6 [] c = "7" -> 7
    [] c = "8" -> 8 [] c = "9" -> 9
WhiteSpace == {" "}
InfinityWord == <<"I", "n", "f", "i", "n", "i", "t", "y">>

RECURSIVE SkipWhiteSpace(_, _)
SkipWhiteSpace(cs, i) ==
  IF i <= Len(cs) /\ cs[i] \in WhiteSpace THEN SkipWhiteSpace(cs, i + 1) ELSE i

RECURSIVE CountDigits(_, _)
CountDigits(cs, i) ==
  IF i <= Len(cs) /\ cs[i] \in Digits THEN 1 + CountDigits(cs, i + 1) ELSE 0

RECURSIVE DigitsValue(_, _, _)
DigitsValue(cs, i, n) ==
  IF n = 0 THEN 0
  ELSE DigitsValue(cs, i, n - 1) * 10 + DigitValue(cs[i + n - 1])

StartsWith(cs, i, word) ==
  /\ i + Len(word) - 1 <= Len(cs)
  /\ \A k \in 1..Len(word) : cs[i + k - 1] = word[k]

\* the number digits * 10^(+-exponent) / 10^places, with its sign.  A value
\* whose numerator or denominator has more than nine digits keeps its power
\* of ten apart, in the field e (the texts considered are far shorter than
\* any that leaves the range of a double)
Scaled(digits, negative, places, exponent, eNegative) ==
  IF digits = 0 THEN Num(0)
  ELSE IF eNegative /\ places + exponent <= 9
  THEN Rat(IF negative THEN 0 - digits ELSE digits, Pow10(places) * Pow10(exponent))
  ELSE IF ~eNegative /\ exponent <= 9 /\ digits < Pow10(9 - exponent)
  THEN Rat((IF negative THEN 0 - digits ELSE digits) * Pow10(exponent), Pow10(places))
  ELSE [t |-> "num", v |-> IF negative THEN 0 - digits ELSE digits,
        d |-> Pow10(places), e |-> IF eNegative THEN 0 - exponent ELSE exponent]

\* the exponent part at index i: e or E, an optional sign, digits; without
\* digits there is no exponent part
ExponentAt(cs, i) ==
  IF i <= Len(cs) /\ cs[i] \in {"e", "E"}
  THEN IF i + 1 <= Len(cs) /\ cs[i + 1] \in {"+", "-"}
       THEN [negative |-> cs[i + 1] = "-",
             value |-> DigitsValue(cs, i + 2, CountDigits(cs, i + 2))]
       ELSE [negative |-> FALSE,
             value |-> DigitsValue(cs, i + 1, CountDigits(cs, i + 1))]
  ELSE [negative |-> FALSE, value |-> 0]

\* nInt digits from index i1, nFrac digits after the point, the rest from
\* index after: NaN without any digit
DecimalAt(cs, i1, negative, nInt, nFrac, after) ==
  IF nInt + nFrac = 0 THEN NaN
  ELSE Scaled(DigitsValue(cs, i1, nInt) * Pow10(nFrac)
                + DigitsValue(cs, i1 + nInt + 1, nFrac),
              negative, nFrac,
              ExponentAt(cs, after).value, ExponentAt(cs, after).negative)

FractionAt(cs, i1, negative, nInt) ==
  IF i1 + nInt <= Len(cs) /\ cs[i1 + nInt] = "."
  THEN DecimalAt(cs, i1, negative, nInt, CountDigits(cs, i1 + nInt + 1),
                 i1 + nInt + 1 + CountDigits(cs, i1 + nInt + 1))
  ELSE DecimalAt(cs, i1, negative, nInt, 0, i1 + nInt)

MantissaAt(cs, i1, negative) ==
  IF StartsWith(cs, i1, InfinityWord)
  THEN Infinity(IF negative THEN 0 - 1 ELSE 1)
  ELSE FractionAt(cs, i1, negative, CountDigits(cs, i1))

SignAt(cs, i0) ==
  IF i0 <= Len(cs) /\ cs[i0] \in {"+", "-"}
  THEN MantissaAt(cs, i0 + 1, cs[i0] = "-")
  ELSE MantissaAt(cs, i0, FALSE)

\* parseFloat on a string: leading white space is skipped, then the longest
\* prefix that is a decimal literal is converted; NaN when there is none
parseFloatChars(cs) == SignAt(cs, SkipWhiteSpace(cs, 1))

\* the integer of n digits from index i1, with its sign; NaN without a digit
IntegerAt(cs, i1, negative, n) ==
  IF n = 0 THEN NaN
  ELSE Num(IF negative THEN 0 - DigitsValue(cs, i1, n) ELSE DigitsValue(cs, i1, n))

IntegerSignAt(cs, i0) ==
  IF i0 <= Len(cs) /\ cs[i0] \in {"+", "-"}
  THEN IntegerAt(cs, i0 + 1, cs[i0] = "-", CountDigits(cs, i0 + 1))
  ELSE IntegerAt(cs, i0, FALSE, CountDigits(cs, i0))

\* parseInt(string, 10): white space, a sign, then decimal digits
parseIntChars(cs) == IntegerSignAt(cs, SkipWhiteSpace(cs, 1))

\* the characters of the strings that occur in provider documents
Chars(s) ==
  CASE s = "" -> <<>>
    [] s = "None" -> <<"N", "o", "n", "e">>
    [] s = "0" -> <<"0">>
    [] s = "1" -> <<"1">>
    [] s = "2" -> <<"2">>
    [] s = "4" -> <<"4">>
    [] s = "8" -> <<"8">>
    [] s = "16" -> <<"1", "6">>
    [] s = "32" -> <<"3", "2">>
    [] s = "64" -> <<"6", "4">>
    [] s = "128" -> <<"1", "2", "8">>
    [] s = "25" -> <<"2", "5">>
    [] s = "60" -> <<"6", "0">>
    [] s = "-3" -> <<"-", "3">>
    [] s = "10" -> <<"1", "0">>
    [] s = "40" -> <<"4", "0">>
    [] s = "50" -> <<"5", "0">>
    [] s = "100" -> <<"1", "0", "0">>
    [] s = "148" -> <<"1", "4", "8">>
    [] s = "150" -> <<"1", "5", "0">>
    [] s = "200" -> <<"2", "0", "0">>
    [] s = "400" -> <<"4", "0", "0">>
    [] s = "800" -> <<"8", "0", "0">>
    [] s = "1000" -> <<"1", "0", "0", "0">>
    [] s = "2.5" -> <<"2", ".", "5">>
    [] s = "12abc" -> <<"1", "2", "a", "b", "c">>
    [] OTHER -> <<"n", "/", "a">>

\* parseFloat and parseInt on a string of a provider document
parseFloat(s) == parseFloatChars(Chars(s))
parseInt(s) == parseIntChars(Chars(s))

\* a JSON object is a function from the keys it has to their values
Has(obj, k) == k \in DOMAIN obj
\* obj[k] is a string and is truthy (present and not empty)
Truthy(obj, k) == Has(obj, k) /\ obj[k] # ""

(***************************************************************************)
(* The value parsers on a value: a string (its characters), undefined or   *)
(* null.                                                                   *)
(***************************************************************************)
Undefined == [t |-> "undefined", s |-> <<>>]
JsNull == [t |-> "null", s |-> <<>>]
Text(cs) == [t |-> "string", s |-> cs]
NoneWord == <<"N", "o", "n", "e">>

\* obj[k] as a value
Field(obj, k) == IF Has(obj, k) THEN Text(Chars(obj[k])) ELSE Undefined

\* parseValue with `!parsed` in the place of isNaN(parsed)
parseValue_falsyIsNull(value) ==
  IF value.t # "string" \/ value.s = <<>> \/ value.s = NoneWord
  THEN Null
  ELSE LET parsed == parseFloatChars(value.s)
       IN IF parsed = NaN \/ parsed = Num(0) THEN Null ELSE parsed

\* transformers.ts parseValue(value: string | undefined): number | null
parseValue(value) ==
  IF value.t # "string" \/ value.s = <<>> \/ value.s = NoneWord
  THEN Null
  ELSE LET parsed == parseFloatChars(value.s)
       IN IF parsed = NaN THEN Null ELSE parsed

\* parseNumber reading the text with parseInt
parseNumberValue_parseInt(value) ==
  IF value.t # "string" \/ value.s = <<>> \/ value.s = NoneWord
  THEN Null
  ELSE LET num == parseIntChars(value.s)
       IN IF num = NaN THEN Null ELSE num

\* alphaVantage.ts parseNumber(value: string | undefined | null): number | null
parseNumberValue(value) ==
  IF value.t # "string" \/ value.s = <<>> \/ value.s = NoneWord
  THEN Null
  ELSE LET num == parseFloatChars(value.s)
       IN IF num = NaN THEN Null ELSE num

\* parseNumber(obj[k]) on a field of a provider document
parseNumber(obj, k) == parseNumberValue(Field(obj, k))

\* a || b on numbers: null, NaN and 0 are falsy
OrElse(a, b) == IF a.t = "inf" \/ (a.t = "num" /\ a.v # 0) THEN a ELSE b

\* obj[k] || dflt on strings
StrOr(obj, k, dflt) == IF Truthy(obj, k) THEN obj[k] ELSE dflt


(***************************************************************************)
(* Provider payloads.  Texts of the error and advisory fields.             *)
(***************************************************************************)
InvalidCallText == "Invalid API call. Please retry or visit the documentation."
QuotaText == "Our standard API call frequency is 5 calls per minute."
PremiumText == "Premium endpoint"

ErrorKeys == {"Error Message", "Note", "Information"}
ErrorFieldTexts(k) ==
  IF k = "Error Message" THEN {"", InvalidCallText}
  ELSE {"", QuotaText, PremiumText}

\* every combination of the three optional fields of AlphaVantageError
ErrorObjects ==
  UNION { {f \in [K -> {"", InvalidCallText, QuotaText, PremiumText}] :
             \A k \in K : f[k] \in ErrorFieldTexts(k)} : K \in SUBSET ErrorKeys }

\* the objects with the keys of K taken from obj, for every subset of keys
SubObjects(obj) == { [k \in K |-> obj[k]] : K \in SUBSET DOMAIN obj }

IdentOverview == [Symbol |-> "IBM", Name |-> "International Business Machines"]
OverviewFields ==
  [Description |-> "Technology company", Sector |-> "TECHNOLOGY",
   MarketCapitalization |-> "1000", PERatio |-> "25", SharesOutstanding |-> "0",
   EBITDA |-> "12abc", EVToRevenue |-> "-3", ForwardPE |-> "25",
   TrailingPE |-> "None"]
OverviewContents ==
  { i @@ f : i \in SubObjects(IdentOverview), f \in {<<>>, OverviewFields} }

AnnualRow ==
  [fiscalDateEnding |-> "2024-12-31", reportedCurrency |-> "USD", totalRevenue |-> "1000"]
QuarterlyRow ==
  [fiscalDateEnding |-> "2024-09-30", reportedCurrency |-> "USD", totalRevenue |-> "150"]
ReportLists(row) == {<<>>, <<row>>}

\* income statement, balance sheet and cash flow documents
StatementContents ==
  { s @@ a @@ q :
      s \in SubObjects([symbol |-> "IBM"]),
      a \in {<<>>} \cup {[annualReports |-> l] : l \in ReportLists(AnnualRow)},
      q \in {<<>>} \cup {[quarterlyReports |-> l] : l \in ReportLists(QuarterlyRow)} }

AnnualEarning == [fiscalDateEnding |-> "2024-12-31", reportedEPS |-> "25"]
QuarterlyEarning ==
  [fiscalDateEnding |-> "2024-09-30", reportedDate |-> "2024-10-20", reportedEPS |-> "0",
   estimatedEPS |-> "0", surprise |-> "0", surprisePercentage |-> "None"]
EarningsContents ==
  { s @@ a @@ q :
      s \in SubObjects([symbol |-> "IBM"]),
      a \in {<<>>} \cup {[annualEarnings |-> l] : l \in ReportLists(AnnualEarning)},
      q \in {<<>>} \cup {[quarterlyEarnings |-> l] : l \in ReportLists(QuarterlyEarning)} }

\* one row of a time series object (TimeSeriesData), with and without the
\* adjusted close field
RowWithAdjusted ==
  ("1. open" :> "148" @@ "2. high" :> "150" @@ "3. low" :> "148" @@
   "4. close" :> "150" @@ "5. adjusted close" :> "148" @@ "6. volume" :> "1000")
RowPlain ==
  ("1. open" :> "148" @@ "2. high" :> "150" @@ "3. low" :> "148" @@
   "4. close" :> "150" @@ "5. volume" :> "1000")

\* a time series object as the sequence of its entries, in the order the
\* provider lists them (newest first)
SeriesObjects ==
  { <<>>,
    <<[date |-> "2024-01-03", values |-> RowWithAdjusted],
      [date |-> "2024-01-02", values |-> RowWithAdjusted]>>,
    <<[date |-> "2024-01-03", values |-> RowPlain],
      [date |-> "2024-01-02", values |-> RowPlain]>> }

Intervals == {"5min", "60min"}
SeriesKey(iv) ==
  CASE iv = "1min" -> "Time Series (1min)"
    [] iv = "5min" -> "Time Series (5min)"
    [] iv = "15min" -> "Time Series (15min)"
    [] iv = "30min" -> "Time Series (30min)"
    [] iv = "60min" -> "Time Series (60min)"

DailyContents ==
  {<<>>} \cup { ("Time Series (Daily)" :> s) : s \in SeriesObjects }
IntradayContents ==
  {<<>>} \cup { (SeriesKey(iv) :> s) : iv \in Intervals, s \in SeriesObjects }

GetterNames ==
  {"getCompanyOverview", "getIncomeStatement", "getBalanceSheet", "getCashFlow",
   "getDailyPrices", "getIntradayPrices", "getEarnings"}

\* the JSON documents the provider may answer a getter's request with
Contents(g) ==
  CASE g = "getCompanyOverview" -> OverviewContents
    [] g \in {"getIncomeStatement", "getBalanceSheet", "getCashFlow"} -> StatementContents
    [] g = "getDailyPrices" -> DailyContents
    [] g = "getIntradayPrices" -> IntradayContents
    [] g = "getEarnings" -> EarningsContents
Payloads(g) == { e @@ c : e \in ErrorObjects, c \in Contents(g) }

\* an HTTP response: status ok or not, and a body that is JSON or is not
NoData == <<>>
Responses(g) ==
  { [ok |-> o, statusText |-> IF o THEN "OK" ELSE "Internal Server Error",
     parses |-> TRUE, data |-> d] : o \in BOOLEAN, d \in Payloads(g) }
  \cup
  { [ok |-> o, statusText |-> IF o THEN "OK" ELSE "Internal Server Error",
     parses |-> FALSE, data |-> NoData] : o \in BOOLEAN }
NoResponse == [ok |-> FALSE, statusText |-> "", parses |-> FALSE, data |-> NoData]

(***************************************************************************)
(* Results of a getter: a thrown Error with its message (a sequence of     *)
(* the message's parts), or a returned value.                              *)
(***************************************************************************)
NoValue == <<>>
Pending == [status |-> "pending", message |-> <<>>, value |-> NoValue]
Throw(msg) == [status |-> "error", message |-> msg, value |-> NoValue]
Ok(v) == [status |-> "ok", message |-> <<>>, value |-> v]

KEY_NOT_CONFIGURED == <<"Alpha Vantage API key is not configured">>
RATE_LIMIT_MESSAGE == <<"API call frequency limit reached. Please try again later.">>
INVALID_JSON ==
  <<"Invalid JSON response from Alpha Vantage API. Response may be CSV format or corrupted.">>
InvalidTicker(ticker) == <<"Invalid ticker symbol: ">> \o ticker
FailedToFetch(what, statusText) == <<"Failed to fetch ", what, ": ", statusText>>
NoDataReturned(what, ticker) ==
  <<"No data returned from Alpha Vantage API for ", what>> \o ticker
    \o <<". The symbol may be invalid or data may not be available.">>

\* validateTicker with the pattern /^[A-Z]+$/: no upper limit on the length
validateTicker_noMaxLength(ticker) ==
  LET u == toUpperCase(ticker)
  IN  /\ Len(u) >= 1
      /\ \A i \in 1..Len(u) : u[i] \in UpperLetters

\* validateTicker testing the ticker as it was typed
validateTicker_noUpperCase(ticker) ==
  /\ Len(ticker) >= 1
  /\ Len(ticker) <= 5
  /\ \A i \in 1..Len(ticker) : ticker[i] \in UpperLetters

\* /^[A-Z]{1,5}$/.test(ticker.toUpperCase())
validateTicker(ticker) ==
  LET u == toUpperCase(ticker)
  IN  /\ Len(u) >= 1
      /\ Len(u) <= 5
      /\ \A i \in 1..Len(u) : u[i] \in UpperLetters

\* checkForError without its first test: the error message is not looked at
checkForError_noErrorMessage(data) ==
  IF Truthy(data, "Note")
  THEN [thrown |-> TRUE, message |-> RATE_LIMIT_MESSAGE]
  ELSE IF Truthy(data, "Information")
  THEN [thrown |-> TRUE, message |-> RATE_LIMIT_MESSAGE]
  ELSE [thrown |-> FALSE, message |-> <<>>]

\* checkForError with the advisory fields tested before the error message
checkForError_advisoryFirst(data) ==
  IF Truthy(data, "Note")
  THEN [thrown |-> TRUE, message |-> RATE_LIMIT_MESSAGE]
  ELSE IF Truthy(data, "Information")
  THEN [thrown |-> TRUE, message |-> RATE_LIMIT_MESSAGE]
  ELSE IF Truthy(data, "Error Message")
  THEN [thrown |-> TRUE, message |-> <<data["Error Message"]>>]
  ELSE [thrown |-> FALSE, message |-> <<>>]

\* checkForError(data): the Error it throws, or nothing
checkForError(data) ==
  IF Truthy(data, "Error Message")
  THEN [thrown |-> TRUE, message |-> <<data["Error Message"]>>]
  ELSE IF Truthy(data, "Note")
  THEN [thrown |-> TRUE, message |-> RATE_LIMIT_MESSAGE]
  ELSE IF Truthy(data, "Information")
  THEN [thrown |-> TRUE, message |-> RATE_LIMIT_MESSAGE]
  ELSE [thrown |-> FALSE, message |-> <<>>]

\* parseFloat(obj[k]) and parseInt(obj[k], 10); an absent key parses to NaN
parseFloatOf(obj, k) == IF Has(obj, k) THEN parseFloat(obj[k]) ELSE NaN
parseIntOf(obj, k) == IF Has(obj, k) THEN parseInt(obj[k]) ELSE NaN

\* new Date(date).getTime(), as a day count that orders the sample dates
DateTime(date) ==
  CASE date = "2017-12-31" -> 20171231
    [] date = "2018-12-31" -> 20181231
    [] date = "2019-12-31" -> 20191231
    [] date = "2020-12-31" -> 20201231
    [] date = "2021-12-31" -> 20211231
    [] date = "2022-12-31" -> 20221231
    [] date = "2023-12-31" -> 20231231
    [] date = "2024-01-02" -> 20240102
    [] date = "2024-01-03" -> 20240103
    [] date = "2024-09-30" -> 20240930
    [] date = "2024-12-31" -> 20241231
    [] OTHER -> 0

\* Array.prototype.sort((a, b) => time(a.date) - time(b.date)): stable, ascending
RECURSIVE InsertByDate(_, _)
InsertByDate(sorted, x) ==
  IF sorted = <<>> THEN <<x>>
  ELSE IF DateTime(sorted[Len(sorted)].date) <= DateTime(x.date)
       THEN Append(sorted, x)
       ELSE Append(InsertByDate(SubSeq(sorted, 1, Len(sorted) - 1), x), sorted[Len(sorted)])
RECURSIVE SortAscendingByDate(_)
SortAscendingByDate(s) ==
  IF s = <<>> THEN <<>>
  ELSE InsertByDate(SortAscendingByDate(SubSeq(s, 1, Len(s) - 1)), s[Len(s)])

\* the PricePoint of one entry of a time series object
PricePointOf(entry) ==
  [date |-> entry.date,
   open |-> parseFloatOf(entry.values, "1. open"),
   high |-> parseFloatOf(entry.values, "2. high"),
   low |-> parseFloatOf(entry.values, "3. low"),
   close |-> parseFloatOf(entry.values, "4. close"),
   adjustedClose |-> parseFloatOf(entry.values, "5. adjusted close"),
   volume |-> parseIntOf(entry.values, "6. volume")]

\* Object.entries(series).map(...).sort(...)
PricesOf(series) ==
  SortAscendingByDate([i \in 1..Len(series) |-> PricePointOf(series[i])])

\* value || toUpperCase(ticker): texts that may come from the ticker are
\* sequences of parts
SymbolOr(data, k, ticker) ==
  IF Truthy(data, k) THEN <<data[k]>> ELSE toUpperCase(ticker)

\* an array field that is absent, or present (arrays are truthy, also empty)
ListOr(data, k) == IF Has(data, k) THEN data[k] ELSE <<>>
NoRows(data, k) == ~Has(data, k) \/ Len(data[k]) = 0

\* getCompanyOverview after checkForError: the empty check and the record
OverviewResult(data, ticker) ==
  IF ~Truthy(data, "Symbol") /\ ~Truthy(data, "Name") /\ Cardinality(DOMAIN data) = 0
  THEN Throw(NoDataReturned("symbol ", ticker))
  ELSE Ok([symbol |-> SymbolOr(data, "Symbol", ticker),
           name |-> StrOr(data, "Name", ""),
           description |-> StrOr(data, "Description", ""),
           sector |-> StrOr(data, "Sector", ""),
           industry |-> StrOr(data, "Industry", ""),
           marketCap |-> parseNumber(data, "MarketCapitalization"),
           peRatio |-> parseNumber(data, "PERatio"),
           priceToBook |-> parseNumber(data, "PriceToBookRatio"),
           priceToSales |-> parseNumber(data, "PriceToSalesRatioTTM"),
           dividendYield |-> parseNumber(data, "DividendYield"),
           sharesOutstanding |-> parseNumber(data, "SharesOutstanding"),
           roe |-> parseNumber(data, "ReturnOnEquityTTM"),
           roa |-> parseNumber(data, "ReturnOnAssetsTTM"),
           revenueTTM |-> parseNumber(data, "RevenueTTM"),
           grossProfitTTM |-> parseNumber(data, "GrossProfitTTM"),
           ebitda |-> parseNumber(data, "EBITDA"),
           evToSales |-> OrElse(parseNumber(data, "EVToSales"),
                                parseNumber(data, "EVToRevenue")),
           evToEbitda |-> parseNumber(data, "EVToRevenue"),
           forwardPE |-> parseNumber(data, "ForwardPE"),
           trailingPE |-> parseNumber(data, "TrailingPE")])

\* the statement document a statement getter returns
StatementRecord(data, ticker) ==
  [symbol |-> SymbolOr(data, "symbol", ticker),
   annualReports |-> ListOr(data, "annualReports"),
   quarterlyReports |-> ListOr(data, "quarterlyReports")]

\* getIncomeStatement and getBalanceSheet after checkForError
StatementResult(data, ticker, what) ==
  IF ~Truthy(data, "symbol") /\ NoRows(data, "annualReports")
       /\ NoRows(data, "quarterlyReports")
  THEN Throw(NoDataReturned(what, ticker))
  ELSE Ok(StatementRecord(data, ticker))

\* getCashFlow after checkForError: no empty check
CashFlowResult(data, ticker) == Ok(StatementRecord(data, ticker))

\* getEarnings after checkForError: no empty check
EarningsResult(data, ticker) ==
  Ok([symbol |-> SymbolOr(data, "symbol", ticker),
      annualEarnings |-> ListOr(data, "annualEarnings"),
      quarterlyEarnings |-> ListOr(data, "quarterlyEarnings")])

\* getDailyPrices and getIntradayPrices after checkForError
PricesResult(data, key, noSeries) ==
  IF ~Has(data, key)
  THEN Throw(<<noSeries>>)
  ELSE Ok([prices |-> PricesOf(data[key])])

(***************************************************************************)
(* State.                                                                  *)
(***************************************************************************)
VARIABLES
  API_KEY,     \* process.env.ALPHAVANTAGE_API_KEY: the tokens of its value, in order
  pc,          \* "idle", "fetching" (suspended in await fetch) or "done"
  getter,      \* the getter that was called
  ticker,      \* its ticker argument
  interval,    \* its interval argument (getIntradayPrices), else ""
  requests,    \* the query parameters of the fetch calls issued by this call
  response,    \* the response the fetch has resolved to
  classified,  \* checkForError has run on the payload
  normalized,  \* the code after checkForError has run on the payload
  result,      \* what the call has thrown or returned
  call,        \* the library function that was called, with its arguments
  ret,         \* what that function returned
  passed,      \* the objects it was called with, as the call has left them
  localStorage \* window.localStorage: its items by key; no window on the server

\* the variables of the provider client, and those of the calculation
\* library (transformers.ts, calculations.ts, forecasting.ts)
clientVars ==
  <<API_KEY, pc, getter, ticker, interval, requests, response, classified,
    normalized, result>>
libVars == <<call, ret, passed, localStorage>>
vars == <<clientVars, libVars>>

NoCall == [op |-> "", args |-> <<>>]

\* the value of the environment variable with n comma-separated tokens
Pool(n) == [i \in 1..n |-> i]

\* a browser whose storage holds the items, and the server (no window)
Browser(items) == [window |-> TRUE, items |-> items]
NoWindow == [window |-> FALSE, items |-> <<>>]

\* nothing has been called yet
Started(storage) ==
  /\ pc = "idle"
  /\ getter = ""
  /\ ticker = <<>>
  /\ interval = ""
  /\ requests = <<>>
  /\ response = NoResponse
  /\ classified = FALSE
  /\ normalized = FALSE
  /\ result = Pending
  /\ call = NoCall
  /\ ret = NoValue
  /\ passed = <<>>
  /\ localStorage = storage

Init ==
  /\ API_KEY \in {Pool(n) : n \in 0..MaxPool}
  /\ Started(Browser(<<>>))

\* the getters without their API_KEY guard
ApiKeyMissing_neverChecked == FALSE

\* !API_KEY: the variable is unset or empty
ApiKeyMissing == Len(API_KEY) = 0

\* url.searchParams of a getter; the whole value of API_KEY is the apikey
Url(fn, t, extra) ==
  ("function" :> <<fn>> @@ "symbol" :> toUpperCase(t) @@ "apikey" :> API_KEY) @@ extra

\* a prologue that issues its fetch twice without awaiting the first
Begin_twoRequests(g, t, iv, url) ==
  /\ pc = "idle"
  /\ getter' = g
  /\ ticker' = t
  /\ interval' = iv
  /\ IF ApiKeyMissing
     THEN /\ result' = Throw(KEY_NOT_CONFIGURED)
          /\ pc' = "done"
          /\ UNCHANGED requests
     ELSE IF ~validateTicker(t)
     THEN /\ result' = Throw(InvalidTicker(t))
          /\ pc' = "done"
          /\ UNCHANGED requests
     ELSE /\ requests' = Append(Append(requests, url), url)
          /\ pc' = "fetching"
          /\ UNCHANGED result
  /\ UNCHANGED <<API_KEY, response, classified, normalized, libVars>>

\* a getter up to its await fetch: the two guards, then the request
Begin(g, t, iv, url) ==
  /\ pc = "idle"
  /\ getter' = g
  /\ ticker' = t
  /\ interval' = iv
  /\ IF ApiKeyMissing
     THEN /\ result' = Throw(KEY_NOT_CONFIGURED)
          /\ pc' = "done"
          /\ UNCHANGED requests
     ELSE IF ~validateTicker(t)
     THEN /\ result' = Throw(InvalidTicker(t))
          /\ pc' = "done"
          /\ UNCHANGED requests
     ELSE /\ requests' = Append(requests, url)
          /\ pc' = "fetching"
          /\ UNCHANGED result
  /\ UNCHANGED <<API_KEY, response, classified, normalized, libVars>>

\* the transport check without the test of response.ok
TransportError_noStatusCheck(resp, what) ==
  IF ~resp.parses
  THEN [thrown |-> TRUE, message |-> INVALID_JSON]
  ELSE [thrown |-> FALSE, message |-> <<>>]

\* !response.ok and the JSON.parse of the body: the Error thrown, or nothing
TransportError(resp, what) ==
  IF ~resp.ok
  THEN [thrown |-> TRUE, message |-> FailedToFetch(what, resp.statusText)]
  ELSE IF ~resp.parses
  THEN [thrown |-> TRUE, message |-> INVALID_JSON]
  ELSE [thrown |-> FALSE, message |-> <<>>]

\* a getter from the resolved fetch to its end; post is what the code after
\* checkForError makes of the payload
Finish(g, resp, what, post) ==
  /\ pc = "fetching"
  /\ getter = g
  /\ response' = resp
  /\ pc' = "done"
  /\ LET tr == TransportError(resp, what)
         chk == checkForError(resp.data)
     IN  IF tr.thrown
         THEN /\ result' = Throw(tr.message)
              /\ UNCHANGED <<classified, normalized>>
         ELSE IF chk.thrown
         THEN /\ result' = Throw(chk.message)
              /\ classified' = TRUE
              /\ UNCHANGED normalized
         ELSE /\ result' = post
              /\ classified' = TRUE
              /\ normalized' = TRUE
  /\ UNCHANGED <<API_KEY, getter, ticker, interval, requests, libVars>>

\* the responses each getter's fetch may resolve to
OverviewResponses == Responses("getCompanyOverview")
StatementResponses == Responses("getIncomeStatement")
DailyResponses == Responses("getDailyPrices")
IntradayResponses == Responses("getIntradayPrices")
EarningsResponses == Responses("getEarnings")

getCompanyOverview ==
  /\ pc = "idle"
  /\ \E t \in Tickers :
       Begin("getCompanyOverview", t, "", Url("OVERVIEW", t, <<>>))
getCompanyOverviewResume ==
  /\ pc = "fetching" /\ getter = "getCompanyOverview"
  /\ \E resp \in OverviewResponses :
       Finish("getCompanyOverview", resp, "company overview",
              OverviewResult(resp.data, ticker))

getIncomeStatement ==
  /\ pc = "idle"
  /\ \E t \in Tickers :
       Begin("getIncomeStatement", t, "", Url("INCOME_STATEMENT", t, <<>>))
getIncomeStatementResume ==
  /\ pc = "fetching" /\ getter = "getIncomeStatement"
  /\ \E resp \in StatementResponses :
       Finish("getIncomeStatement", resp, "income statement",
              StatementResult(resp.data, ticker, "income statement of "))

getBalanceSheet ==
  /\ pc = "idle"
  /\ \E t \in Tickers :
       Begin("getBalanceSheet", t, "", Url("BALANCE_SHEET", t, <<>>))
getBalanceSheetResume ==
  /\ pc = "fetching" /\ getter = "getBalanceSheet"
  /\ \E resp \in StatementResponses :
       Finish("getBalanceSheet", resp, "balance sheet",
              StatementResult(resp.data, ticker, "balance sheet of "))

getCashFlow ==
  /\ pc = "idle"
  /\ \E t \in Tickers :
       Begin("getCashFlow", t, "", Url("CASH_FLOW", t, <<>>))
getCashFlowResume ==
  /\ pc = "fetching" /\ getter = "getCashFlow"
  /\ \E resp \in StatementResponses :
       Finish("getCashFlow", resp, "cash flow",
              CashFlowResult(resp.data, ticker))

getDailyPrices ==
  /\ pc = "idle"
  /\ \E t \in Tickers :
       Begin("getDailyPrices", t, "",
             Url("TIME_SERIES_DAILY_ADJUSTED", t,
                 [outputsize |-> <<"full">>, datatype |-> <<"json">>]))
getDailyPricesResume ==
  /\ pc = "fetching" /\ getter = "getDailyPrices"
  /\ \E resp \in DailyResponses :
       Finish("getDailyPrices", resp, "daily prices",
              PricesResult(resp.data, "Time Series (Daily)", "No time series data available"))

getIntradayPrices ==
  /\ pc = "idle"
  /\ \E t \in Tickers, iv \in Intervals :
       Begin("getIntradayPrices", t, iv,
             Url("TIME_SERIES_INTRADAY", t,
                 [interval |-> <<iv>>, datatype |-> <<"json">>]))
getIntradayPricesResume ==
  /\ pc = "fetching" /\ getter = "getIntradayPrices"
  /\ \E resp \in IntradayResponses :
       Finish("getIntradayPrices", resp, "intraday prices",
              PricesResult(resp.data, SeriesKey(interval), "No intraday time series data available"))

getEarnings ==
  /\ pc = "idle"
  /\ \E t \in Tickers :
       Begin("getEarnings", t, "", Url("EARNINGS", t, <<>>))
getEarningsResume ==
  /\ pc = "fetching" /\ getter = "getEarnings"
  /\ \E resp \in EarningsResponses :
       Finish("getEarnings", resp, "earnings",
              EarningsResult(resp.data, ticker))

\* await fetch(...) rejects (no response at all): the getter throws fetch's
\* own error
FETCH_FAILED == <<"fetch failed">>
fetchRejects ==
  /\ pc = "fetching"
  /\ pc' = "done"
  /\ result' = Throw(FETCH_FAILED)
  /\ UNCHANGED <<API_KEY, getter, ticker, interval, requests, response, classified,
                 normalized, libVars>>

\* the route handler has answered; the process is ready for the next call
NextCall ==
  /\ pc = "done"
  /\ pc' = "idle"
  /\ getter' = ""
  /\ ticker' = <<>>
  /\ interval' = ""
  /\ requests' = <<>>
  /\ response' = NoResponse
  /\ classified' = FALSE
  /\ normalized' = FALSE
  /\ result' = Pending
  /\ UNCHANGED <<API_KEY, libVars>>

Next ==
  \/ getCompanyOverview
  \/ getCompanyOverviewResume
  \/ getIncomeStatement
  \/ getIncomeStatementResume
  \/ getBalanceSheet
  \/ getBalanceSheetResume
  \/ getCashFlow
  \/ getCashFlowResume
  \/ getDailyPrices
  \/ getDailyPricesResume
  \/ getIntradayPrices
  \/ getIntradayPricesResume
  \/ getEarnings
  \/ getEarningsResume
  \/ fetchRejects
  \/ NextCall

Spec == Init /\ [][Next]_vars

(***************************************************************************)
(* Vocabulary of the properties.                                           *)
(***************************************************************************)
\* 1 to 5 Latin letters, in either case
WellFormedSymbol(t) ==
  /\ Len(t) \in 1..5
  /\ \A i \in 1..Len(t) : t[i] \in LowerLetters \cup UpperLetters

\* the call has ended, and its one fetch resolved to a JSON payload
Answered == pc = "done" /\ Len(requests) > 0 /\ response.ok /\ response.parses

AdvisoryKeys == {"Note", "Information"}
\* advisory texts that contain "frequency", "call limit" or "api call" in any case
QuotaTexts == {QuotaText}
\* no error-message field, and an advisory field about the quota
QuotaAdvisory(data) ==
  /\ ~Has(data, "Error Message")
  /\ \E k \in AdvisoryKeys : Has(data, k) /\ data[k] \in QuotaTexts
\* no error-message field, an advisory field, and no advisory text about the quota
OtherAdvisory(data) ==
  /\ ~Has(data, "Error Message")
  /\ \E k \in AdvisoryKeys : Has(data, k)
  /\ \A k \in AdvisoryKeys : Has(data, k) => data[k] # "" /\ data[k] \notin QuotaTexts

\* the tokens of the pool that were sent as the credential of some request
TokensTried ==
  { i \in 1..Len(API_KEY) :
      \E j \in 1..Len(requests) : requests[j]["apikey"] = <<API_KEY[i]>> }

(***************************************************************************)
(* C1: an attempt whose payload is classified RateLimited does not end the *)
(* request: the request ends on such an attempt only when no token of the  *)
(* pool is left to try.                                                    *)
(***************************************************************************)
C1_RateLimitedTriesNextToken ==
  (Answered /\ QuotaAdvisory(response.data)) => Len(requests) >= Len(API_KEY)

C3_RateLimitErrorAfterWholePool ==
  (pc = "done" /\ result = Throw(RATE_LIMIT_MESSAGE) /\ QuotaAdvisory(response.data))
  => TokensTried = 1..Len(API_KEY)

(***************************************************************************)
(* C4: when every attempt over the pool was an advisory that is not about  *)
(* the quota, the request fails with an error that differs from the        *)
(* rate-limit error and carries the advisory text of the last attempt.     *)
(***************************************************************************)
C4_AllKeysSkippedCarriesAdvisory ==
  (Answered /\ Len(requests) = Len(API_KEY) /\ OtherAdvisory(response.data))
  => /\ result.status = "error"
     /\ result.message # RATE_LIMIT_MESSAGE
     /\ \E i \in 1..Len(result.message) : result.message[i] = PremiumText

(***************************************************************************)
(* C5: a transport failure (a response whose status is not ok, or whose    *)
(* body is not JSON) ends the call with the transport Error: the payload   *)
(* is not classified, nothing is normalized and the call has issued        *)
(* exactly one network call.                                               *)
(***************************************************************************)
ResourceNames ==
  {"company overview", "income statement", "balance sheet", "cash flow",
   "daily prices", "intraday prices", "earnings"}

C5_TransportFailureAborts ==
  (pc = "done" /\ response # NoResponse /\ (~response.ok \/ ~response.parses))
  => /\ result.status = "error"
     /\ IF ~response.ok
        THEN result.message \in
               {FailedToFetch(w, response.statusText) : w \in ResourceNames}
        ELSE result.message = INVALID_JSON
     /\ ~classified
     /\ ~normalized
     /\ Len(requests) = 1

C5_Witness ==
  /\ pc = "done"
  /\ getter = "getDailyPrices"
  /\ ~response.ok
  /\ response.parses
  /\ DOMAIN response.data = {"Time Series (Daily)"}
  /\ result = Throw(FailedToFetch("daily prices", "Internal Server Error"))
  /\ Len(API_KEY) = 3
  /\ Len(requests) = 1

(***************************************************************************)
(* C6 as stated: a payload that carries the error-message field is         *)
(* classified HardError, whatever advisory fields it also carries.         *)
(***************************************************************************)
C6_ErrorFieldIsHardError ==
  (Answered /\ Has(response.data, "Error Message"))
  => /\ result = Throw(<<response.data["Error Message"]>>)
     /\ ~normalized

(***************************************************************************)
(* C6 amended: a payload whose error-message field is not empty is         *)
(* classified HardError, whatever advisory fields it also carries; a       *)
(* payload with no error-message field and no advisory field is Success    *)
(* and is passed on to the normalization.                                  *)
(***************************************************************************)
C6_ClassificationPrecedence ==
  Answered
  => /\ classified
     /\ (Has(response.data, "Error Message") /\ response.data["Error Message"] # "")
          => (result = Throw(<<response.data["Error Message"]>>) /\ ~normalized)
     /\ (DOMAIN response.data \cap ErrorKeys = {})
          => (normalized /\ result # Throw(RATE_LIMIT_MESSAGE))

C6_Witness ==
  /\ Answered
  /\ ErrorKeys \subseteq DOMAIN response.data
  /\ response.data["Error Message"] = InvalidCallText
  /\ response.data["Note"] = QuotaText
  /\ response.data["Information"] = PremiumText
  /\ result = Throw(<<InvalidCallText>>)

(***************************************************************************)
(* C7: for a payload without an error-message field, an advisory text with *)
(* none of the quota substrings gives an outcome other than RateLimited.   *)
(***************************************************************************)
C7_OtherAdvisoryIsNotRateLimited ==
  (Answered /\ OtherAdvisory(response.data)) => result # Throw(RATE_LIMIT_MESSAGE)

(***************************************************************************)
(* C8: a call of any getter with a symbol that fails the symbol validator  *)
(* issues no network call.                                                 *)
(***************************************************************************)
C8_InvalidSymbolNoNetworkCall ==
  (pc # "idle" /\ ~WellFormedSymbol(ticker)) => (Len(requests) = 0 /\ pc = "done")

C8_Witness ==
  /\ pc = "done"
  /\ getter = "getEarnings"
  /\ Len(ticker) = 6
  /\ \A i \in 1..Len(ticker) : ticker[i] = "a"
  /\ Len(API_KEY) > 0
  /\ Len(requests) = 0
  /\ result = Throw(InvalidTicker(ticker))

(***************************************************************************)
(* C9: a call with a symbol that fails the symbol validator fails with the *)
(* InvalidSymbol error, whatever the credential configuration is.          *)
(***************************************************************************)
C9_InvalidSymbolErrorFirst ==
  (pc = "done" /\ ~WellFormedSymbol(ticker)) => result = Throw(InvalidTicker(ticker))

(***************************************************************************)
(* C10: with an empty credential configuration, a call of any getter with  *)
(* a valid symbol fails with the configuration error and issues no network *)
(* call.                                                                   *)
(***************************************************************************)
C10_EmptyConfigurationFails ==
  (pc # "idle" /\ Len(API_KEY) = 0 /\ WellFormedSymbol(ticker))
  => /\ pc = "done"
     /\ result = Throw(KEY_NOT_CONFIGURED)
     /\ Len(requests) = 0

C10_Witness ==
  /\ pc = "done"
  /\ getter = "getCashFlow"
  /\ Len(API_KEY) = 0
  /\ ticker = <<"a", "a", "a">>
  /\ result = Throw(KEY_NOT_CONFIGURED)
  /\ Len(requests) = 0

\* the five resource types with identifying fields and data rows
DocumentGetters ==
  {"getCompanyOverview", "getIncomeStatement", "getBalanceSheet", "getCashFlow",
   "getEarnings"}
\* a payload with no error-message and no advisory field
StructurallySuccessful(data) ==
  \A k \in {"Error Message"} \cup AdvisoryKeys : ~Has(data, k)
\* a payload with no identifying symbol or name and no data row
NoIdentityNoRows(g, data) ==
  CASE g = "getCompanyOverview" -> ~Truthy(data, "Symbol") /\ ~Truthy(data, "Name")
    [] g = "getEarnings" ->
         /\ ~Truthy(data, "symbol")
         /\ NoRows(data, "annualEarnings") /\ NoRows(data, "quarterlyEarnings")
    [] OTHER ->
         /\ ~Truthy(data, "symbol")
         /\ NoRows(data, "annualReports") /\ NoRows(data, "quarterlyReports")

(***************************************************************************)
(* C11: for each of the five resource types (overview, income statement,   *)
(* balance sheet, cash flow, earnings) a structurally successful payload   *)
(* that has no identifying symbol or name and no data rows makes the       *)
(* getter fail with an error; no record with empty collections is returned.*)
(***************************************************************************)
C11_EmptyPayloadFails ==
  (/\ Answered
   /\ getter \in DocumentGetters
   /\ StructurallySuccessful(response.data)
   /\ NoIdentityNoRows(getter, response.data))
  => result.status = "error"

(***************************************************************************)
(* The provider client when every fetch settles: the promise a getter is   *)
(* suspended on is resolved with a response, or rejected.                  *)
(***************************************************************************)
FetchSettles ==
  \/ getCompanyOverviewResume
  \/ getIncomeStatementResume
  \/ getBalanceSheetResume
  \/ getCashFlowResume
  \/ getDailyPricesResume
  \/ getIntradayPricesResume
  \/ getEarningsResume
  \/ fetchRejects

\* the module holds one key or none (process.env.ALPHAVANTAGE_API_KEY):
\* the runs with a key are those of the largest configuration
FairInit == Init /\ Len(API_KEY) \in {0, MaxPool}

FairSpec == FairInit /\ [][Next]_vars /\ WF_vars(FetchSettles)

\* fetch calls of the request that have been issued and have not settled
Outstanding == IF pc = "done" THEN 0 ELSE Len(requests)
\* the request has ended with a value or with an error
Terminal == pc = "done" /\ result.status \in {"ok", "error"}

Sign(a) == IF a.v < 0 THEN 0 - 1 ELSE IF a.v > 0 THEN 1 ELSE 0

Minus(a, b) ==
  IF a.t = "num" /\ b.t = "num" THEN Rat(a.v * b.d - b.v * a.d, a.d * b.d)
  ELSE IF a.t = "nan" \/ b.t = "nan" \/ a = b THEN NaN
  ELSE IF a.t = "inf" THEN a
  ELSE Infinity(0 - b.v)
Times(a, b) ==
  IF a.t = "num" /\ b.t = "num" THEN Rat(a.v * b.v, a.d * b.d)
  ELSE IF a.t = "nan" \/ b.t = "nan" \/ a.v = 0 \/ b.v = 0 THEN NaN
  ELSE Infinity(Sign(a) * Sign(b))
\* a / b: a division by zero gives NaN or an Infinity
Over(a, b) ==
  IF a.t = "nan" \/ b.t = "nan" THEN NaN
  ELSE IF b.t = "inf" THEN IF a.t = "inf" THEN NaN ELSE Num(0)
  ELSE IF b.v = 0 THEN IF a.v = 0 THEN NaN ELSE Infinity(Sign(a))
  ELSE IF a.t = "inf" THEN Infinity(Sign(a) * Sign(b))
  ELSE Rat(a.v * b.d, a.d * b.v)
\* a value that is truthy: a number other than 0 (null and NaN are falsy)
TruthyNumber(a) == a.t = "inf" \/ (a.t = "num" /\ a.v # 0)

RECURSIVE IntPow(_, _)
IntPow(b, n) == IF n = 0 THEN 1 ELSE b * IntPow(b, n - 1)

\* the least r with r^n >= p, searched upwards from r
RECURSIVE RootAtLeast(_, _, _)
RootAtLeast(p, n, r) == IF IntPow(r, n) >= p THEN r ELSE RootAtLeast(p, n, r + 1)

\* Math.pow(base, 1 / years) for years >= 1: NaN for a negative base and
\* years > 1, Infinity for an infinite one; the exact root where it is a
\* fraction; else the root is irrational and is kept as the pair of its
\* radicand and index
Root(base, years) ==
  IF years = 1 \/ base = NaN THEN base
  ELSE IF base.t = "inf" THEN Infinity(1)
  ELSE IF base.v < 0 THEN NaN
  ELSE LET rn == RootAtLeast(base.v, years, 0)
           rd == RootAtLeast(base.d, years, 1)
       IN IF IntPow(rn, years) = base.v /\ IntPow(rd, years) = base.d
          THEN Rat(rn, rd)
          ELSE [t |-> "root", v |-> base.v, d |-> base.d, n |-> years]

\* calculateYoYGrowth dividing by the magnitude of the previous value
calculateYoYGrowth_absolutePrevious(current, previous) ==
  IF current = Null \/ previous = Null \/ previous = Num(0)
  THEN Null
  ELSE Times(Over(Minus(current, previous),
                  IF previous.t = "num" THEN Rat(Abs(previous.v), previous.d)
                  ELSE previous),
             Num(100))

\* calculateYoYGrowth(current, previous)
calculateYoYGrowth(current, previous) ==
  IF current = Null \/ previous = Null \/ previous = Num(0)
  THEN Null
  ELSE Times(Over(Minus(current, previous), previous), Num(100))

\* calculateMargin(numerator, revenue)
calculateMargin(numerator, revenue) ==
  IF numerator = Null \/ revenue = Null \/ revenue = Num(0)
  THEN Null
  ELSE Times(Over(numerator, revenue), Num(100))

\* calculateROE(netIncome, shareholderEquity)
calculateROE(netIncome, shareholderEquity) ==
  IF netIncome = Null \/ shareholderEquity = Null \/ shareholderEquity = Num(0)
  THEN Null
  ELSE Times(Over(netIncome, shareholderEquity), Num(100))

\* calculateROA(netIncome, totalAssets)
calculateROA(netIncome, totalAssets) ==
  IF netIncome = Null \/ totalAssets = Null \/ totalAssets = Num(0)
  THEN Null
  ELSE Times(Over(netIncome, totalAssets), Num(100))

\* calculateAsPercentOfRevenue(value, revenue)
calculateAsPercentOfRevenue(value, revenue) ==
  IF value = Null \/ revenue = Null \/ revenue = Num(0)
  THEN Null
  ELSE Times(Over(value, revenue), Num(100))

\* calculateAsPercentOfAssets(value, totalAssets)
calculateAsPercentOfAssets(value, totalAssets) ==
  IF value = Null \/ totalAssets = Null \/ totalAssets = Num(0)
  THEN Null
  ELSE Times(Over(value, totalAssets), Num(100))

\* calculateAsPercentOfOperatingCashFlow(value, operatingCashflow)
calculateAsPercentOfOperatingCashFlow(value, operatingCashflow) ==
  IF value = Null \/ operatingCashflow = Null \/ operatingCashflow = Num(0)
  THEN Null
  ELSE Times(Over(value, operatingCashflow), Num(100))

\* isNaN(cagr) || !isFinite(cagr) ? null : cagr
FiniteOrNull(cagr) == IF cagr.t \in {"nan", "inf"} THEN Null ELSE cagr

\* calculateCAGR without the test of the result
calculateCAGR_unchecked(start, end, years) ==
  IF start = Null \/ end = Null \/ start = Num(0) \/ years = 0
  THEN Null
  ELSE LET root == Root(Over(end, start), years)
       IN IF root.t = "root" THEN [root EXCEPT !.t = "rate"]
          ELSE Times(Minus(root, Num(1)), Num(100))

\* calculateCAGR(start, end, years); a growth rate with an irrational root
\* is the record of that root, marked as a rate
calculateCAGR(start, end, years) ==
  IF start = Null \/ end = Null \/ start = Num(0) \/ years = 0
  THEN Null
  ELSE LET root == Root(Over(end, start), years)
       IN IF root.t = "root" THEN [root EXCEPT !.t = "rate"]
          ELSE FiniteOrNull(Times(Minus(root, Num(1)), Num(100)))

(***************************************************************************)
(* Statements handed to the calculation library.                           *)
(***************************************************************************)
\* [...reports].sort((a, b) => time(b.fiscalDateEnding) - time(a.fiscalDateEnding)):
\* stable, newest first
RECURSIVE InsertNewestFirst(_, _)
InsertNewestFirst(sorted, x) ==
  IF sorted = <<>> THEN <<x>>
  ELSE IF DateTime(sorted[Len(sorted)].fiscalDateEnding) >= DateTime(x.fiscalDateEnding)
       THEN Append(sorted, x)
       ELSE Append(InsertNewestFirst(SubSeq(sorted, 1, Len(sorted) - 1), x),
                   sorted[Len(sorted)])
RECURSIVE SortNewestFirst(_)
SortNewestFirst(s) ==
  IF s = <<>> THEN <<>>
  ELSE InsertNewestFirst(SortNewestFirst(SubSeq(s, 1, Len(s) - 1)), s[Len(s)])

\* [...reports].sort((a, b) => time(a.fiscalDateEnding) - time(b.fiscalDateEnding)):
\* stable, oldest first
RECURSIVE InsertOldestFirst(_, _)
InsertOldestFirst(sorted, x) ==
  IF sorted = <<>> THEN <<x>>
  ELSE IF DateTime(sorted[Len(sorted)].fiscalDateEnding) <= DateTime(x.fiscalDateEnding)
       THEN Append(sorted, x)
       ELSE Append(InsertOldestFirst(SubSeq(sorted, 1, Len(sorted) - 1), x),
                   sorted[Len(sorted)])
RECURSIVE SortOldestFirst(_)
SortOldestFirst(s) ==
  IF s = <<>> THEN <<>>
  ELSE InsertOldestFirst(SortOldestFirst(SubSeq(s, 1, Len(s) - 1)), s[Len(s)])

\* period === 'annual' ? statement.annualReports : statement.quarterlyReports
ReportsOf(statement, period) ==
  IF period = "annual" THEN statement.annualReports ELSE statement.quarterlyReports

\* parseValue(report[field])
parseValueOf(report, field) == parseValue(Field(report, field))

\* the growth metrics of reports that are in the order given
GrowthMetricsOf(sortedReports) ==
  LET latest == sortedReports[1]
      has(n) == Len(sortedReports) > n
      latestRevenue == parseValueOf(latest, "totalRevenue")
      previousRevenue ==
        IF has(1) THEN parseValueOf(sortedReports[2], "totalRevenue") ELSE Null
      threeYearsAgoRevenue ==
        IF has(3) THEN parseValueOf(sortedReports[4], "totalRevenue") ELSE Null
      fiveYearsAgoRevenue ==
        IF has(5) THEN parseValueOf(sortedReports[6], "totalRevenue") ELSE Null
      latestNetIncome == parseValueOf(latest, "netIncome")
      previousNetIncome ==
        IF has(1) THEN parseValueOf(sortedReports[2], "netIncome") ELSE Null
      latestEPS == parseValueOf(latest, "eps")
      previousEPS == IF has(1) THEN parseValueOf(sortedReports[2], "eps") ELSE Null
  IN [revenueYoY |-> calculateYoYGrowth(latestRevenue, previousRevenue),
      netIncomeYoY |-> calculateYoYGrowth(latestNetIncome, previousNetIncome),
      epsYoY |-> calculateYoYGrowth(latestEPS, previousEPS),
      revenueCAGR3Y |-> IF TruthyNumber(threeYearsAgoRevenue)
                        THEN calculateCAGR(threeYearsAgoRevenue, latestRevenue, 3)
                        ELSE Null,
      revenueCAGR5Y |-> IF TruthyNumber(fiveYearsAgoRevenue)
                        THEN calculateCAGR(fiveYearsAgoRevenue, latestRevenue, 5)
                        ELSE Null]

NoGrowthMetrics ==
  [revenueYoY |-> Null, netIncomeYoY |-> Null, epsYoY |-> Null,
   revenueCAGR3Y |-> Null, revenueCAGR5Y |-> Null]

\* reports.sort(...) on the array that was handed in: Array.prototype.sort
\* orders the array it is called on
NewestFirstCopy_inPlace(reports) ==
  [reports |-> SortNewestFirst(reports), sorted |-> SortNewestFirst(reports)]

\* [...reports].sort((a, b) => date(b) - date(a)): the spread makes a new
\* array, which is ordered; the array handed in keeps its order
NewestFirstCopy(reports) == [reports |-> reports, sorted |-> SortNewestFirst(reports)]

\* [...reports].sort((a, b) => date(a) - date(b))
OldestFirstCopy(reports) == [reports |-> reports, sorted |-> SortOldestFirst(reports)]

\* sortReportsByDate(reports)
sortReportsByDate(reports) == NewestFirstCopy(reports)

\* the statement with the reports of the period as a call has left them
WithReports(statement, period, reports) ==
  IF period = "annual" THEN [statement EXCEPT !.annualReports = reports]
  ELSE [statement EXCEPT !.quarterlyReports = reports]

\* calculateGrowthMetricsFromStatements without its sort
calculateGrowthMetricsFromStatements_noSort(incomeStatement, period) ==
  LET reports == ReportsOf(incomeStatement, period)
  IN IF Len(reports) = 0 THEN NoGrowthMetrics ELSE GrowthMetricsOf(reports)

\* calculateGrowthMetricsFromStatements(incomeStatement, period)
calculateGrowthMetricsFromStatements(incomeStatement, period) ==
  LET reports == ReportsOf(incomeStatement, period)
  IN IF Len(reports) = 0
     THEN NoGrowthMetrics
     ELSE GrowthMetricsOf(NewestFirstCopy(reports).sorted)

(***************************************************************************)
(* Profitability and efficiency metrics.                                   *)
(***************************************************************************)
NoProfitabilityMetrics ==
  [grossMargin |-> Null, operatingMargin |-> Null, netMargin |-> Null,
   roe |-> Null, roa |-> Null]

\* calculateProfitabilityMetrics reading the last report of the collection
calculateProfitabilityMetrics_lastReport(incomeStatement, period) ==
  LET reports == ReportsOf(incomeStatement, period)
  IN IF Len(reports) = 0 THEN NoProfitabilityMetrics
     ELSE LET latest == reports[Len(reports)]
              revenue == parseValueOf(latest, "totalRevenue")
          IN [grossMargin |-> calculateMargin(parseValueOf(latest, "grossProfit"), revenue),
              operatingMargin |->
                calculateMargin(parseValueOf(latest, "operatingIncome"), revenue),
              netMargin |-> calculateMargin(parseValueOf(latest, "netIncome"), revenue),
              roe |-> Null,
              roa |-> Null]

\* calculateProfitabilityMetrics(incomeStatement, period)
calculateProfitabilityMetrics(incomeStatement, period) ==
  LET reports == ReportsOf(incomeStatement, period)
  IN IF Len(reports) = 0 THEN NoProfitabilityMetrics
     ELSE LET latest == reports[1]
              revenue == parseValueOf(latest, "totalRevenue")
              grossProfit == parseValueOf(latest, "grossProfit")
              operatingIncome == parseValueOf(latest, "operatingIncome")
              netIncome == parseValueOf(latest, "netIncome")
          IN [grossMargin |-> calculateMargin(grossProfit, revenue),
              operatingMargin |-> calculateMargin(operatingIncome, revenue),
              netMargin |-> calculateMargin(netIncome, revenue),
              roe |-> Null,
              roa |-> Null]

NoEfficiencyMetrics == [assetTurnover |-> Null, workingCapitalEfficiency |-> Null]

\* a > 0 on a number or an Infinity
Positive(a) == a.t \in {"num", "inf"} /\ a.v > 0

\* calculateEfficiencyMetrics(incomeStatement, balanceSheet, period)
calculateEfficiencyMetrics(incomeStatement, balanceSheet, period) ==
  LET incomeReports == ReportsOf(incomeStatement, period)
      balanceReports == ReportsOf(balanceSheet, period)
  IN IF Len(incomeReports) = 0 \/ Len(balanceReports) = 0 THEN NoEfficiencyMetrics
     ELSE LET latestIncome == incomeReports[1]
              latestBalance == balanceReports[1]
              revenue == parseValueOf(latestIncome, "totalRevenue")
              totalAssets == parseValueOf(latestBalance, "totalAssets")
              currentAssets == parseValueOf(latestBalance, "totalCurrentAssets")
              currentLiabilities == parseValueOf(latestBalance, "totalCurrentLiabilities")
              assetTurnover ==
                IF TruthyNumber(totalAssets) /\ Positive(totalAssets)
                     /\ TruthyNumber(revenue)
                THEN Over(revenue, totalAssets) ELSE Null
              workingCapital ==
                IF TruthyNumber(currentAssets) /\ TruthyNumber(currentLiabilities)
                THEN Minus(currentAssets, currentLiabilities) ELSE Null
              workingCapitalEfficiency ==
                IF TruthyNumber(workingCapital) /\ workingCapital # Num(0)
                     /\ TruthyNumber(revenue)
                THEN Over(revenue, workingCapital) ELSE Null
          IN [assetTurnover |-> assetTurnover,
              workingCapitalEfficiency |-> workingCapitalEfficiency]

(***************************************************************************)
(* Forecast defaults.                                                      *)
(***************************************************************************)
\* the defaults of getDefaultForecastInputs
DefaultTaxRate == 25
DefaultPEMultiple == 20
DefaultSharesOutstanding == 1000000000

\* getLatestIncomeStatementValue(incomeStatement, field), period 'annual'
getLatestIncomeStatementValue(incomeStatement, field) ==
  LET reports == ReportsOf(incomeStatement, "annual")
  IN IF Len(reports) = 0 THEN Null ELSE parseValueOf(reports[1], field)

\* revenue > 0 ? (part / revenue) * 100 : 0
PercentOrZero(part, revenue) ==
  IF Positive(revenue) THEN Times(Over(part, revenue), Num(100)) ELSE Num(0)

\* getDefaultForecastInputs({incomeStatement, overview})
getDefaultForecastInputs(incomeStatement, overview) ==
  LET latest(field) ==
        OrElse(getLatestIncomeStatementValue(incomeStatement, field), Num(0))
      latestRevenue == latest("totalRevenue")
      latestGrossProfit == latest("grossProfit")
      latestOperatingIncome == latest("operatingIncome")
      latestNetIncome == latest("netIncome")
      incomeBeforeTax == latest("incomeBeforeTax")
      incomeTaxExpense == latest("incomeTaxExpense")
  IN [revenueGrowth |-> Num(0),
      grossMargin |-> PercentOrZero(latestGrossProfit, latestRevenue),
      operatingMargin |-> PercentOrZero(latestOperatingIncome, latestRevenue),
      netMargin |-> PercentOrZero(latestNetIncome, latestRevenue),
      taxRate |-> IF Positive(incomeBeforeTax)
                  THEN Times(Over(incomeTaxExpense, incomeBeforeTax), Num(100))
                  ELSE Num(DefaultTaxRate),
      peMultiple |-> OrElse(overview.peRatio,
                            OrElse(overview.trailingPE, Num(DefaultPEMultiple))),
      sharesOutstanding |->
        OrElse(overview.sharesOutstanding, Num(DefaultSharesOutstanding)),
      baseRevenue |-> latestRevenue]

(***************************************************************************)
(* The forecast.                                                           *)
(***************************************************************************)
Plus(a, b) ==
  IF a.t = "num" /\ b.t = "num" THEN Rat(a.v * b.d + b.v * a.d, a.d * b.d)
  ELSE IF a.t = "nan" \/ b.t = "nan" THEN NaN
  ELSE IF a.t = "inf" /\ b.t = "inf" /\ a # b THEN NaN
  ELSE IF a.t = "inf" THEN a
  ELSE b

\* calculateEPS without the test for zero shares
calculateEPS_noZeroCheck(netIncome, sharesOutstanding) ==
  IF netIncome = Null \/ sharesOutstanding = Null THEN Null
  ELSE Over(netIncome, sharesOutstanding)

\* calculateEPS(netIncome, sharesOutstanding)
calculateEPS(netIncome, sharesOutstanding) ==
  IF netIncome = Null \/ sharesOutstanding = Null \/ sharesOutstanding = Num(0)
  THEN Null
  ELSE Over(netIncome, sharesOutstanding)

\* the outputs of runForecast from the projected revenue and net income
ForecastOutputs(inputs, projectedRevenue, projectedNetIncome) ==
  LET projectedGrossProfit ==
        Over(Times(projectedRevenue, inputs.grossMargin), Num(100))
      projectedEPS ==
        OrElse(calculateEPS(projectedNetIncome, inputs.sharesOutstanding), Num(0))
  IN [projectedRevenue |-> projectedRevenue,
      projectedCOGS |-> Minus(projectedRevenue, projectedGrossProfit),
      projectedGrossProfit |-> projectedGrossProfit,
      projectedOperatingIncome |->
        Over(Times(projectedRevenue, inputs.operatingMargin), Num(100)),
      projectedNetIncome |-> projectedNetIncome,
      projectedEPS |-> projectedEPS,
      impliedPrice |-> Times(projectedEPS, inputs.peMultiple)]

\* baseRevenue * (1 + revenueGrowth / 100)
ProjectedRevenue(inputs) ==
  Times(inputs.baseRevenue, Plus(Num(1), Over(inputs.revenueGrowth, Num(100))))

\* projectedIncomeBeforeTax - projectedIncomeTax, the income before tax being
\* the operating income
ProjectedNetIncome(operatingIncome, taxRate) ==
  Minus(operatingIncome, Over(Times(operatingIncome, taxRate), Num(100)))

\* runForecast taking the net income from the net margin
runForecast_netMarginIncome(inputs) ==
  ForecastOutputs(inputs, ProjectedRevenue(inputs),
                  Over(Times(ProjectedRevenue(inputs), inputs.netMargin), Num(100)))

\* runForecast(inputs)
runForecast(inputs) ==
  ForecastOutputs(inputs, ProjectedRevenue(inputs),
                  ProjectedNetIncome(
                    Over(Times(ProjectedRevenue(inputs), inputs.operatingMargin),
                         Num(100)),
                    inputs.taxRate))

\* calculateUpside without the test for a zero price
calculateUpside_noZeroCheck(impliedPrice, currentPrice) ==
  IF currentPrice = Null THEN Null
  ELSE Times(Over(Minus(impliedPrice, currentPrice), currentPrice), Num(100))

\* calculateUpside(impliedPrice, currentPrice)
calculateUpside(impliedPrice, currentPrice) ==
  IF currentPrice = Null \/ currentPrice = Num(0) THEN Null
  ELSE Times(Over(Minus(impliedPrice, currentPrice), currentPrice), Num(100))

(***************************************************************************)
(* Series for the trend charts.                                            *)
(***************************************************************************)
\* buildTrendsSeriesFromStatements with the comparator of the newest-first sort
buildTrendsSeriesFromStatements_newestFirst(reports, field) ==
  LET sortedReports == SortNewestFirst(reports)
  IN [i \in 1..Len(sortedReports) |->
        [date |-> sortedReports[i].fiscalDateEnding,
         value |-> parseValueOf(sortedReports[i], field)]]

\* buildTrendsSeriesFromStatements(reports, field)
buildTrendsSeriesFromStatements(reports, field) ==
  LET sortedReports == OldestFirstCopy(reports).sorted
  IN [i \in 1..Len(sortedReports) |->
        [date |-> sortedReports[i].fiscalDateEnding,
         value |-> parseValueOf(sortedReports[i], field)]]

\* calculateFreeCashFlow where an unknown capital expenditure makes the value null
calculateFreeCashFlow_unknownCapexIsNull(cashFlow, period) ==
  LET sortedReports == SortOldestFirst(ReportsOf(cashFlow, period))
  IN [i \in 1..Len(sortedReports) |->
        LET report == sortedReports[i]
            operatingCashflow == parseValueOf(report, "operatingCashflow")
            capitalExpenditures == parseValueOf(report, "capitalExpenditures")
        IN [date |-> report.fiscalDateEnding,
            value |-> IF operatingCashflow = Null \/ capitalExpenditures = Null
                      THEN Null
                      ELSE Minus(operatingCashflow, capitalExpenditures)]]

\* calculateFreeCashFlow(cashFlow, period)
calculateFreeCashFlow(cashFlow, period) ==
  LET reports == ReportsOf(cashFlow, period)
      sortedReports == OldestFirstCopy(reports).sorted
  IN [i \in 1..Len(sortedReports) |->
        LET report == sortedReports[i]
            operatingCashflow == parseValueOf(report, "operatingCashflow")
            capitalExpenditures == parseValueOf(report, "capitalExpenditures")
        IN IF operatingCashflow = Null
           THEN [date |-> report.fiscalDateEnding, value |-> Null]
           ELSE IF capitalExpenditures = Null
           THEN [date |-> report.fiscalDateEnding, value |-> operatingCashflow]
           ELSE [date |-> report.fiscalDateEnding,
                 value |-> Minus(operatingCashflow, capitalExpenditures)]]

(***************************************************************************)
(* Calls of the calculation library.  Each action is one call of one       *)
(* function with arguments drawn from the values below; LibReturn hands    *)
(* the result to the caller.                                               *)
(***************************************************************************)
\* longest text handed to the value parsers
MaxTextLen == 3

TextChars == {"0", "1", "-", ".", "e", "a", " "}
Texts ==
  UNION {[1..n -> TextChars] : n \in 0..MaxTextLen}
    \cup {NoneWord, InfinityWord, <<"-", "0", ".", "5">>, <<"1", "2", "a", "b", "c">>}
\* the values a document field may hold
FieldValues == {Undefined} \cup {Text(cs) : cs \in Texts}

\* no call is under way (the library is synchronous)
Idle == call = NoCall

\* a call that leaves the objects it was handed as `left`
LibCallLeaving(op, args, left, value) ==
  /\ call' = [op |-> op, args |-> args]
  /\ ret' = value
  /\ passed' = left
  /\ UNCHANGED <<clientVars, localStorage>>

\* a call of a function that writes to none of its arguments
LibCall(op, args, value) == LibCallLeaving(op, args, args, value)

ParseValue ==
  /\ Idle
  /\ \E value \in FieldValues : LibCall("parseValue", <<value>>, parseValue(value))

ParseNumber ==
  /\ Idle
  /\ \E value \in FieldValues \cup {JsNull} :
        LibCall("parseNumber", <<value>>, parseNumberValue(value))

(***************************************************************************)
(* The statements the library is called with: reports of pairwise          *)
(* distinct fiscal dates (one report per period) in any order.             *)
(***************************************************************************)
\* most reports in one collection of a statement
MaxReports == 6

FiscalYearEnd(i) ==
  CASE i = 1 -> "2017-12-31" [] i = 2 -> "2018-12-31" [] i = 3 -> "2019-12-31"
    [] i = 4 -> "2020-12-31" [] i = 5 -> "2021-12-31" [] i = 6 -> "2022-12-31"
    [] i = 7 -> "2023-12-31" [] i = 8 -> "2024-12-31"
Doubling(i) ==
  CASE i = 1 -> "1" [] i = 2 -> "2" [] i = 3 -> "4" [] i = 4 -> "8"
    [] i = 5 -> "16" [] i = 6 -> "32" [] i = 7 -> "64" [] i = 8 -> "128"
Uneven(i) ==
  CASE i = 1 -> "100" [] i = 2 -> "150" [] i = 3 -> "148" [] i = 4 -> "1000"
    [] i = 5 -> "25" [] i = 6 -> "10" [] i = 7 -> "40" [] i = 8 -> "50"
Cycle(i, a, b, c) == CASE i % 3 = 1 -> a [] i % 3 = 2 -> b [] OTHER -> c

Profiles == {"doubling", "sparse", "uneven"}
\* the report of fiscal year i: the fields the library reads, as the
\* provider sends them (strings, "None", or no field at all)
Report(i, profile) ==
  [fiscalDateEnding |-> FiscalYearEnd(i), reportedCurrency |-> "USD"] @@
  CASE profile = "doubling" ->
         [totalRevenue |-> Doubling(i), grossProfit |-> "1", operatingIncome |-> "0",
          netIncome |-> Doubling(9 - i), eps |-> IF i % 2 = 0 THEN "2.5" ELSE "-3",
          totalAssets |-> Cycle(i, "100", "None", "0"),
          totalCurrentAssets |-> IF i % 2 = 0 THEN "50" ELSE "0",
          totalCurrentLiabilities |-> Cycle(i, "0", "10", "50"),
          operatingCashflow |-> Cycle(i, "100", "None", "50")] @@
         (IF i % 3 = 0 THEN <<>>
          ELSE [capitalExpenditures |-> Cycle(i, "40", "10", "")])
    [] profile = "sparse" ->
         [grossProfit |-> "25", operatingIncome |-> "None", netIncome |-> "None",
          eps |-> "12abc", totalAssets |-> "100", totalCurrentAssets |-> "50",
          totalCurrentLiabilities |-> "10", operatingCashflow |-> "0",
          capitalExpenditures |-> "-3"] @@
         (IF i % 3 = 1 THEN <<>>
          ELSE [totalRevenue |-> Cycle(i, "", "100", "0")])
    [] profile = "uneven" ->
         [totalRevenue |-> Uneven(i), grossProfit |-> "40", operatingIncome |-> "-3",
          netIncome |-> IF i % 2 = 1 THEN "-3" ELSE "0", eps |-> "",
          totalAssets |-> "-3", totalCurrentAssets |-> "10",
          totalCurrentLiabilities |-> "40", operatingCashflow |-> "2.5",
          capitalExpenditures |-> "2.5", incomeBeforeTax |-> "100",
          incomeTaxExpense |-> "40"]

\* the orders in which up to n reports of distinct fiscal years can come
YearLists(years, n) ==
  UNION { { list \in [1..len -> years] :
              \A i, j \in 1..len : i # j => list[i] # list[j] } : len \in 0..n }
ReportSequences(years, n) ==
  { [i \in 1..Len(list) |-> Report(list[i], profile)] :
      list \in YearLists(years, n), profile \in Profiles }
Periods == {"annual", "quarterly"}
\* a statement whose reports of the period asked for are the given ones
Statement(reports, period) ==
  [symbol |-> "IBM",
   annualReports |-> IF period = "annual" THEN reports ELSE <<Report(1, "uneven")>>,
   quarterlyReports |-> IF period = "quarterly" THEN reports ELSE <<>>]
\* most reports in a collection whose reports are read one by one
MaxSeries == 3

AllReportSequences == ReportSequences(1..MaxReports, MaxReports)
ShortReportSequences == ReportSequences(1..MaxReports, MaxSeries)

CalculateGrowthMetrics ==
  /\ Idle
  /\ \E reports \in AllReportSequences, period \in Periods :
        LET incomeStatement == Statement(reports, period)
        IN LibCallLeaving(
             "calculateGrowthMetricsFromStatements", <<incomeStatement, period>>,
             <<WithReports(incomeStatement, period,
                           IF Len(reports) = 0 THEN reports
                           ELSE NewestFirstCopy(reports).reports), period>>,
             calculateGrowthMetricsFromStatements(incomeStatement, period))

\* the reports of an income statement and a balance sheet that are read together
PairedReportSequences ==
  { <<[i \in 1..Len(income) |-> Report(income[i], profile)],
      [i \in 1..Len(balance) |-> Report(balance[i], profile)]>> :
      income \in YearLists(2..4, MaxSeries), balance \in YearLists(2..4, MaxSeries),
      profile \in Profiles }

CalculateProfitabilityMetrics ==
  /\ Idle
  /\ \E reports \in ShortReportSequences, period \in Periods :
        LET incomeStatement == Statement(reports, period)
        IN LibCall("calculateProfitabilityMetrics", <<incomeStatement, period>>,
                   calculateProfitabilityMetrics(incomeStatement, period))

CalculateEfficiencyMetrics ==
  /\ Idle
  /\ \E pair \in PairedReportSequences, period \in Periods :
        LET incomeStatement == Statement(pair[1], period)
            balanceSheet == Statement(pair[2], period)
        IN LibCall("calculateEfficiencyMetrics",
                   <<incomeStatement, balanceSheet, period>>,
                   calculateEfficiencyMetrics(incomeStatement, balanceSheet, period))

\* the overviews the forecast defaults are derived from
PEValues == {Null, Num(0), Num(15), Num(30)}
Overviews ==
  { [OverviewResult(IdentOverview, <<"IBM">>).value EXCEPT
       !.peRatio = pe, !.trailingPE = trailing, !.forwardPE = forward,
       !.sharesOutstanding = shares] :
      pe \in PEValues, trailing \in PEValues, forward \in PEValues,
      shares \in {Null, Num(1000)} }
LatestReportSequences == ReportSequences({1, 3, 4}, 1)

GetDefaultForecastInputs ==
  /\ Idle
  /\ \E reports \in LatestReportSequences, overview \in Overviews :
        LET incomeStatement == Statement(reports, "annual")
        IN LibCall("getDefaultForecastInputs", <<incomeStatement, overview>>,
                   getDefaultForecastInputs(incomeStatement, overview))

\* the fields the trend charts are built from, and a field no report has
SeriesFields == {"totalRevenue", "netIncome", "eps", "sharesOutstanding"}

BuildTrendsSeries ==
  /\ Idle
  /\ \E reports \in ShortReportSequences, field \in SeriesFields :
        LibCallLeaving("buildTrendsSeriesFromStatements", <<reports, field>>,
                       <<OldestFirstCopy(reports).reports, field>>,
                       buildTrendsSeriesFromStatements(reports, field))

CalculateFreeCashFlow ==
  /\ Idle
  /\ \E reports \in ShortReportSequences, period \in Periods :
        LET cashFlow == Statement(reports, period)
        IN LibCallLeaving("calculateFreeCashFlow", <<cashFlow, period>>,
                          <<WithReports(cashFlow, period,
                                        OldestFirstCopy(reports).reports), period>>,
                          calculateFreeCashFlow(cashFlow, period))

\* the numbers the arithmetic functions are called with: those parseValue
\* returns
FiniteNumbers == {Num(0), Num(100), Num(200), Num(0 - 50), Rat(5, 2)}
Numbers == FiniteNumbers \cup {Infinity(1), Infinity(0 - 1)}
NullableNumbers == Numbers \cup {Null}

CalculateYoYGrowth ==
  /\ Idle
  /\ \E current \in NullableNumbers, previous \in NullableNumbers :
        LibCall("calculateYoYGrowth", <<current, previous>>,
                calculateYoYGrowth(current, previous))

\* a call of one of the percentage helpers
CalculatePercentage ==
  /\ Idle
  /\ \E numerator \in NullableNumbers, base \in NullableNumbers :
        \/ LibCall("calculateMargin", <<numerator, base>>,
                   calculateMargin(numerator, base))
        \/ LibCall("calculateROE", <<numerator, base>>,
                   calculateROE(numerator, base))
        \/ LibCall("calculateROA", <<numerator, base>>,
                   calculateROA(numerator, base))
        \/ LibCall("calculateAsPercentOfRevenue", <<numerator, base>>,
                   calculateAsPercentOfRevenue(numerator, base))
        \/ LibCall("calculateAsPercentOfAssets", <<numerator, base>>,
                   calculateAsPercentOfAssets(numerator, base))
        \/ LibCall("calculateAsPercentOfOperatingCashFlow", <<numerator, base>>,
                   calculateAsPercentOfOperatingCashFlow(numerator, base))

\* the spans of years a growth rate is taken over, and no span
Spans == {0, 1, 2, 3, 5}

CalculateCAGR ==
  /\ Idle
  /\ \E start \in NullableNumbers, end \in NullableNumbers, years \in Spans :
        LibCall("calculateCAGR", <<start, end, years>>, calculateCAGR(start, end, years))

\* the assumptions the forecast page hands to runForecast
ForecastInputs ==
  [revenueGrowth : {Num(0), Num(10), Num(0 - 50), Rat(5, 2)},
   grossMargin : {Num(40), Num(0)},
   operatingMargin : {Num(30), Num(0 - 3)},
   netMargin : {Num(20), Num(0), Num(0 - 3)},
   taxRate : {Num(25), Num(0)},
   peMultiple : {Num(20), Num(15)},
   sharesOutstanding : {Num(0), Num(1000)},
   baseRevenue : {Num(0), Num(1000), Num(0 - 50)}]

RunForecast ==
  /\ Idle
  /\ \E inputs \in ForecastInputs :
        LibCall("runForecast", <<inputs>>, runForecast(inputs))

CalculateUpside ==
  /\ Idle
  /\ \E impliedPrice \in Numbers, currentPrice \in NullableNumbers :
        LibCall("calculateUpside", <<impliedPrice, currentPrice>>,
                calculateUpside(impliedPrice, currentPrice))

\* what a user may type into the search bar: letters in either case, and
\* such a string with a digit, a full stop or a space in one place
LetterSymbols == UNION {[1..n -> {"a", "B"}] : n \in 0..MaxTickerLen}
Symbols ==
  LetterSymbols
    \cup UNION { {[symbol EXCEPT ![i] = c] : i \in 1..Len(symbol), c \in {"1", ".", " "}} :
                 symbol \in LetterSymbols }

ValidateTicker ==
  /\ Idle
  /\ \E symbol \in Symbols : LibCall("validateTicker", <<symbol>>, validateTicker(symbol))

SortReportsByDate ==
  /\ Idle
  /\ \E reports \in ShortReportSequences :
        LibCallLeaving("sortReportsByDate", <<reports>>,
                       <<sortReportsByDate(reports).reports>>,
                       sortReportsByDate(reports).sorted)

(***************************************************************************)
(* The calculation library as a state machine.                             *)
(***************************************************************************)
LibReturn ==
  /\ call # NoCall
  /\ call' = NoCall
  /\ ret' = NoValue
  /\ passed' = <<>>
  /\ UNCHANGED <<clientVars, localStorage>>

LibInit == Init /\ API_KEY = Pool(1)

LibNext ==
  \/ ParseValue
  \/ CalculateYoYGrowth
  \/ CalculatePercentage
  \/ CalculateCAGR
  \/ RunForecast
  \/ CalculateUpside
  \/ ValidateTicker
  \/ SortReportsByDate
  \/ ParseNumber
  \/ CalculateGrowthMetrics
  \/ CalculateProfitabilityMetrics
  \/ CalculateEfficiencyMetrics
  \/ GetDefaultForecastInputs
  \/ BuildTrendsSeries
  \/ CalculateFreeCashFlow
  \/ LibReturn

LibSpec == LibInit /\ [][LibNext]_vars

(***************************************************************************)
(* Vocabulary of the claims about the library.                             *)
(***************************************************************************)
Called(op) == call.op = op

\* a well-formed number: an optional minus sign, digits, and optionally a
\* decimal point followed by digits
WellFormedNumber(cs) ==
  LET start == IF Len(cs) > 0 /\ cs[1] = "-" THEN 2 ELSE 1
      dots == {i \in start..Len(cs) : cs[i] = "."}
  IN /\ start <= Len(cs)
     /\ \A i \in start..Len(cs) : cs[i] \in Digits \cup {"."}
     /\ Cardinality(dots) <= 1
     /\ cs[start] \in Digits
     /\ cs[Len(cs)] \in Digits

\* the number a well-formed text denotes: each digit weighted by its place
RECURSIVE PlaceSum(_, _, _, _)
PlaceSum(cs, i, point, places) ==
  IF i > Len(cs) THEN 0
  ELSE PlaceSum(cs, i + 1, point, places)
         + (IF cs[i] \notin Digits THEN 0
            ELSE IF i < point
                 THEN DigitValue(cs[i]) * Pow10(point - 1 - i) * Pow10(places)
                 ELSE DigitValue(cs[i]) * Pow10(Len(cs) - i))
Denoted(cs) ==
  LET dots == {i \in 1..Len(cs) : cs[i] = "."}
      point == IF dots = {} THEN Len(cs) + 1 ELSE CHOOSE i \in dots : TRUE
      places == Len(cs) + 1 - point - (IF dots = {} THEN 0 ELSE 1)
      scaled == PlaceSum(cs, 1, point, places)
  IN Rat(IF cs[1] = "-" THEN 0 - scaled ELSE scaled, Pow10(places))

\* the text starts, after white space and an optional sign, with a digit, with
\* a decimal point and a digit, or with the word Infinity
NumericStart(cs) ==
  \E i \in 1..Len(cs) :
     /\ \A j \in 1..(i - 1) : cs[j] \in WhiteSpace
     /\ \E k \in {i, i + 1} :
          /\ k = i + 1 => cs[i] \in {"+", "-"}
          /\ k <= Len(cs)
          /\ \/ cs[k] \in Digits
             \/ cs[k] = "." /\ k + 1 <= Len(cs) /\ cs[k + 1] \in Digits
             \/ StartsWith(cs, k, InfinityWord)

\* the text holds a character that occurs in no decimal or exponent notation
\* of a number, so it is not a well-formed number however that is read
ForeignCharacter(cs) ==
  \E i \in 1..Len(cs) : cs[i] \notin Digits \cup {"+", "-", ".", "e", "E", " "}

ParserCalled == Called("parseValue") \/ Called("parseNumber")
ParsedNumber == ret.t \in {"num", "inf"}

(***************************************************************************)
(* C13 as stated: parseValue and parseNumber return null for an absent     *)
(* value, "", "None" and every text that is not a well-formed number, and  *)
(* for a well-formed numeric string exactly the number it denotes.         *)
(***************************************************************************)
C13_NullUnlessWellFormed ==
  ParserCalled =>
    LET value == call.args[1]
    IN /\ (value.t # "string" \/ value.s = <<>> \/ value.s = NoneWord) => ret = Null
       /\ (value.t = "string" /\ WellFormedNumber(value.s)) => ret = Denoted(value.s)
       /\ (value.t = "string" /\ ForeignCharacter(value.s)) => ret = Null

(***************************************************************************)
(* C13 amended: parseValue and parseNumber never raise; they return null   *)
(* for an absent value, "", "None" and every text that does not start      *)
(* (after white space and an optional sign) with a digit, a decimal point  *)
(* and a digit, or the word Infinity; every other text gives a number;     *)
(* for a well-formed numeric string it is exactly the number denoted.      *)
(***************************************************************************)
C13_ParseNumeric ==
  ParserCalled =>
    LET value == call.args[1]
    IN /\ ret = Null \/ ParsedNumber
       /\ (value.t # "string" \/ value.s = <<>> \/ value.s = NoneWord) => ret = Null
       /\ (value.t = "string" /\ WellFormedNumber(value.s)) => ret = Denoted(value.s)
       /\ (value.t = "string" /\ value.s # NoneWord) =>
            (ret = Null <=> ~NumericStart(value.s))

C13_Witness ==
  /\ Called("parseValue")
  /\ call.args[1] = Text(<<"-", "0", ".", "5">>)
  /\ ret = Rat(0 - 1, 2)

\* the report of a collection that has exactly k later reports
KthLatest(reports, k) ==
  reports[CHOOSE i \in 1..Len(reports) :
            Cardinality({j \in 1..Len(reports) :
               DateTime(reports[j].fiscalDateEnding)
                 > DateTime(reports[i].fiscalDateEnding)}) = k]
\* the parsed field of that report, null when there is no such report
KthLatestValue(reports, k, field) ==
  IF Len(reports) > k THEN parseValue(Field(KthLatest(reports, k), field)) ELSE Null

(***************************************************************************)
(* C14: the growth metrics are those of the reports of the selected        *)
(* period ordered by fiscal date, whatever their order in the input: each  *)
(* YoY figure compares the latest report with the next latest,             *)
(* revenueCAGR3Y is cagr(rev[3], rev[0], 3) and revenueCAGR5Y is           *)
(* cagr(rev[5], rev[0], 5) on the reports with 3 resp. 5 later reports     *)
(* before the latest; a metric whose lookback report does not exist is     *)
(* null, and an empty collection gives five nulls.                         *)
(***************************************************************************)
C14_GrowthByDatePosition ==
  Called("calculateGrowthMetricsFromStatements") =>
    LET reports == ReportsOf(call.args[1], call.args[2])
        rev(k) == KthLatestValue(reports, k, "totalRevenue")
        net(k) == KthLatestValue(reports, k, "netIncome")
        eps(k) == KthLatestValue(reports, k, "eps")
    IN /\ ret.revenueYoY = calculateYoYGrowth(rev(0), rev(1))
       /\ ret.netIncomeYoY = calculateYoYGrowth(net(0), net(1))
       /\ ret.epsYoY = calculateYoYGrowth(eps(0), eps(1))
       /\ ret.revenueCAGR3Y = calculateCAGR(rev(3), rev(0), 3)
       /\ ret.revenueCAGR5Y = calculateCAGR(rev(5), rev(0), 5)
       /\ Len(reports) <= 1 => ret.revenueYoY = Null /\ ret.epsYoY = Null
       /\ Len(reports) <= 3 => ret.revenueCAGR3Y = Null
       /\ Len(reports) <= 5 => ret.revenueCAGR5Y = Null

\* six reports with the newest in the middle: revenue 32 against 4 three
\* reports back and 1 five reports back
C14_Witness ==
  /\ Called("calculateGrowthMetricsFromStatements")
  /\ call.args[2] = "quarterly"
  /\ LET reports == ReportsOf(call.args[1], call.args[2])
     IN /\ Len(reports) = 6
        /\ reports[3].fiscalDateEnding = FiscalYearEnd(6)
        /\ reports[6].fiscalDateEnding = FiscalYearEnd(3)
  /\ ret.revenueYoY = Num(100)
  /\ ret.revenueCAGR3Y = Num(100)
  /\ ret.revenueCAGR5Y = Num(100)

\* the margins of one income report
MarginsOf(report) ==
  LET revenue == parseValue(Field(report, "totalRevenue"))
  IN [grossMargin |-> calculateMargin(parseValue(Field(report, "grossProfit")), revenue),
      operatingMargin |->
        calculateMargin(parseValue(Field(report, "operatingIncome")), revenue),
      netMargin |-> calculateMargin(parseValue(Field(report, "netIncome")), revenue)]
\* the margins of a result
MarginsIn(metrics) ==
  [grossMargin |-> metrics.grossMargin, operatingMargin |-> metrics.operatingMargin,
   netMargin |-> metrics.netMargin]
\* the statement that holds this one report for the period
Single(report, period) == Statement(<<report>>, period)

(***************************************************************************)
(* C15 as stated: the profitability and the efficiency metrics are         *)
(* computed from the report with the greatest fiscal date of the selected  *)
(* period type (one per statement) and from no other report; an empty      *)
(* selected collection gives all-null metrics.                             *)
(***************************************************************************)
C15_FromGreatestFiscalDate ==
  /\ Called("calculateProfitabilityMetrics") =>
       LET reports == ReportsOf(call.args[1], call.args[2])
       IN IF Len(reports) = 0 THEN ret = NoProfitabilityMetrics
          ELSE MarginsIn(ret) = MarginsOf(KthLatest(reports, 0))
  /\ Called("calculateEfficiencyMetrics") =>
       LET income == ReportsOf(call.args[1], call.args[3])
           balance == ReportsOf(call.args[2], call.args[3])
       IN IF Len(income) = 0 \/ Len(balance) = 0 THEN ret = NoEfficiencyMetrics
          ELSE ret = calculateEfficiencyMetrics(
                       Single(KthLatest(income, 0), call.args[3]),
                       Single(KthLatest(balance, 0), call.args[3]), call.args[3])

(***************************************************************************)
(* C15 amended: the profitability and the efficiency metrics are computed  *)
(* from exactly one report per statement, the first report (index 0) of    *)
(* the collection of the selected period type, which is the latest only    *)
(* when the collection is ordered newest first; no other report            *)
(* influences the result; an empty selected collection gives all-null      *)
(* metrics.                                                                *)
(***************************************************************************)
C15_FromFirstReport ==
  /\ Called("calculateProfitabilityMetrics") =>
       LET reports == ReportsOf(call.args[1], call.args[2])
       IN IF Len(reports) = 0 THEN ret = NoProfitabilityMetrics
          ELSE MarginsIn(ret) = MarginsOf(reports[1])
  /\ Called("calculateEfficiencyMetrics") =>
       LET income == ReportsOf(call.args[1], call.args[3])
           balance == ReportsOf(call.args[2], call.args[3])
       IN IF Len(income) = 0 \/ Len(balance) = 0 THEN ret = NoEfficiencyMetrics
          ELSE ret = calculateEfficiencyMetrics(
                       Single(income[1], call.args[3]),
                       Single(balance[1], call.args[3]), call.args[3])

\* three reports, the oldest first: the margins are those of the oldest
C15_Witness ==
  /\ Called("calculateProfitabilityMetrics")
  /\ LET reports == ReportsOf(call.args[1], call.args[2])
     IN /\ Len(reports) = 3
        /\ reports[1].fiscalDateEnding = FiscalYearEnd(1)
        /\ reports[3].fiscalDateEnding = FiscalYearEnd(4)
        /\ Field(reports[1], "totalRevenue") = Text(<<"1">>)
  /\ ret.grossMargin = Num(100)

(***************************************************************************)
(* C16: assetTurnover is revenue / totalAssets whenever revenue is known   *)
(* and totalAssets > 0 (else null); workingCapitalEfficiency is            *)
(* revenue / (currentAssets - currentLiabilities) whenever all three are   *)
(* known and the difference is not zero (else null), also when one of the  *)
(* known values is zero.  The values are those of the reports the          *)
(* function reads.                                                         *)
(***************************************************************************)
C16_EfficiencyFormulas ==
  (/\ Called("calculateEfficiencyMetrics")
   /\ Len(ReportsOf(call.args[1], call.args[3])) > 0
   /\ Len(ReportsOf(call.args[2], call.args[3])) > 0)
  => LET income == ReportsOf(call.args[1], call.args[3])[1]
         balance == ReportsOf(call.args[2], call.args[3])[1]
         revenue == parseValue(Field(income, "totalRevenue"))
         totalAssets == parseValue(Field(balance, "totalAssets"))
         currentAssets == parseValue(Field(balance, "totalCurrentAssets"))
         currentLiabilities == parseValue(Field(balance, "totalCurrentLiabilities"))
     IN /\ ret.assetTurnover =
             IF revenue # Null /\ totalAssets # Null /\ totalAssets.v > 0
             THEN Over(revenue, totalAssets) ELSE Null
        /\ ret.workingCapitalEfficiency =
             IF /\ revenue # Null /\ currentAssets # Null /\ currentLiabilities # Null
                /\ Minus(currentAssets, currentLiabilities) # Num(0)
             THEN Over(revenue, Minus(currentAssets, currentLiabilities)) ELSE Null

(***************************************************************************)
(* C17: the default P/E multiple is the overview's trailing P/E or, when   *)
(* that is unknown, its forward P/E; the fallback 20 is used only when     *)
(* the overview supplies neither.  A P/E of 0 counts as unknown here, as   *)
(* it does in the code.                                                    *)
(***************************************************************************)
C17_DefaultPEMultiple ==
  Called("getDefaultForecastInputs") =>
    LET overview == call.args[2]
    IN ret.peMultiple =
         IF TruthyNumber(overview.trailingPE) THEN overview.trailingPE
         ELSE IF TruthyNumber(overview.forwardPE) THEN overview.forwardPE
         ELSE Num(20)

\* the time series object of the payload of a price getter
SeriesOfPayload ==
  response.data[IF getter = "getDailyPrices" THEN "Time Series (Daily)"
                ELSE SeriesKey(interval)]

(***************************************************************************)
(* C18: a price getter returns one PricePoint per provider row, sorted     *)
(* ascending by date, and for every provider row without a distinct        *)
(* adjusted-close field the PricePoint's adjustedClose is a number, equal  *)
(* to its close.                                                           *)
(***************************************************************************)
C18_AdjustedCloseDefaultsToClose ==
  (/\ Answered
   /\ getter \in {"getDailyPrices", "getIntradayPrices"}
   /\ result.status = "ok")
  => LET rows == SeriesOfPayload
         prices == result.value.prices
     IN /\ Len(prices) = Len(rows)
        /\ \A i, j \in 1..Len(prices) :
             i < j => DateTime(prices[i].date) <= DateTime(prices[j].date)
        /\ \A i \in 1..Len(rows) :
             \E j \in 1..Len(prices) :
                /\ prices[j].date = rows[i].date
                /\ ~Has(rows[i].values, "5. adjusted close") =>
                     /\ prices[j].adjustedClose.t = "num"
                     /\ prices[j].adjustedClose = prices[j].close

\* a series has one entry per report, each report's date once, oldest first
OnePerReportAscending(series, reports) ==
  /\ Len(series) = Len(reports)
  /\ \A i \in 1..Len(reports) :
       Cardinality({j \in 1..Len(series) :
                      series[j].date = reports[i].fiscalDateEnding}) = 1
  /\ \A i, j \in 1..Len(series) :
       i < j => DateTime(series[i].date) < DateTime(series[j].date)
\* the value of the entry of a series for a report
ValueFor(series, report) ==
  series[CHOOSE j \in 1..Len(series) : series[j].date = report.fiscalDateEnding].value

(***************************************************************************)
(* C19: calculateFreeCashFlow returns one entry per report of the selected *)
(* period in ascending fiscal-date order; the entry's value is null when   *)
(* operatingCashflow is null, operatingCashflow when capitalExpenditures   *)
(* is null, and operatingCashflow - capitalExpenditures otherwise.         *)
(***************************************************************************)
C19_FreeCashFlow ==
  Called("calculateFreeCashFlow") =>
    LET reports == ReportsOf(call.args[1], call.args[2])
    IN /\ OnePerReportAscending(ret, reports)
       /\ \A i \in 1..Len(reports) :
            LET ocf == parseValue(Field(reports[i], "operatingCashflow"))
                capex == parseValue(Field(reports[i], "capitalExpenditures"))
            IN ValueFor(ret, reports[i]) =
                 IF ocf = Null THEN Null
                 ELSE IF capex = Null THEN ocf
                 ELSE Minus(ocf, capex)

\* the rows {100, 40}, {null, 10}, {50, null}, given newest first
C19_Witness ==
  /\ Called("calculateFreeCashFlow")
  /\ LET reports == ReportsOf(call.args[1], call.args[2])
     IN /\ Len(reports) = 3
        /\ reports[1].fiscalDateEnding = FiscalYearEnd(3)
        /\ reports[2].fiscalDateEnding = FiscalYearEnd(2)
        /\ reports[3].fiscalDateEnding = FiscalYearEnd(1)
        /\ Field(reports[3], "capitalExpenditures") = Text(<<"4", "0">>)
  /\ Len(ret) = 3
  /\ ret[1].value = Num(60) /\ ret[2].value = Null /\ ret[3].value = Num(50)

IsPercentOf(r, nv, nd, bv, bd) ==
  r.t = "num" /\ r.v * nd * bv = 100 * nv * bd * r.d

(***************************************************************************)
(* C21: yoyGrowth(current, previous) is null exactly when current is null, *)
(* previous is null or previous is zero; otherwise it is                   *)
(* (current - previous) / previous * 100, also for a negative previous and *)
(* for current = 0.                                                        *)
(***************************************************************************)
C21_YoYGrowth ==
  Called("calculateYoYGrowth") =>
    LET current == call.args[1]
        previous == call.args[2]
    IN /\ ret = Null <=> (current = Null \/ previous = Null \/ previous = Num(0))
       /\ (ret # Null /\ current.t = "num" /\ previous.t = "num") =>
            IsPercentOf(ret, current.v * previous.d - previous.v * current.d,
                        current.d * previous.d, previous.v, previous.d)
       /\ ret # Null => ret = Times(Over(Minus(current, previous), previous), Num(100))

C21_Witness ==
  /\ Called("calculateYoYGrowth")
  /\ call.args = <<Num(0), Num(0 - 50)>>
  /\ ret = Num(0 - 100)

PercentageHelpers ==
  {"calculateMargin", "calculateROE", "calculateROA", "calculateAsPercentOfRevenue",
   "calculateAsPercentOfAssets", "calculateAsPercentOfOperatingCashFlow"}

(***************************************************************************)
(* C22: margin, roe, roa and the percent-of-revenue, percent-of-assets and *)
(* percent-of-operating-cash-flow helpers return null exactly when the     *)
(* numerator is null or the base is null or zero, and otherwise            *)
(* numerator / base * 100; none returns NaN, whatever the input.           *)
(***************************************************************************)
C22_PercentagesTotal ==
  call.op \in PercentageHelpers =>
    LET numerator == call.args[1]
        base == call.args[2]
    IN /\ ret = Null <=> (numerator = Null \/ base = Null \/ base = Num(0))
       /\ (ret # Null /\ numerator.t = "num" /\ base.t = "num") =>
            IsPercentOf(ret, numerator.v, numerator.d, base.v, base.d)
       /\ ret # NaN

(***************************************************************************)
(* C23: cagr(start, end, years) is null whenever start is null, end is     *)
(* null, start is zero or years is zero, and whenever the computed value   *)
(* is not finite (a negative end/start ratio under a fractional exponent,  *)
(* an infinite end); it is never NaN or an Infinity; cagr(100, 100, 3) = 0 *)
(* and cagr(100, 200, 1) = 100.                                            *)
(***************************************************************************)
C23_CAGR ==
  Called("calculateCAGR") =>
    LET start == call.args[1]
        end == call.args[2]
        years == call.args[3]
    IN /\ (start = Null \/ end = Null \/ start = Num(0) \/ years = 0) => ret = Null
       /\ (start.t = "num" /\ end.t = "num" /\ start.v * end.v < 0 /\ years > 1)
            => ret = Null
       /\ end.t = "inf" => ret = Null
       /\ ret.t \notin {"nan", "inf"}
       /\ call.args = <<Num(100), Num(100), 3>> => ret = Num(0)
       /\ call.args = <<Num(100), Num(200), 1>> => ret = Num(100)

C23_Witness ==
  /\ Called("calculateCAGR")
  /\ call.args = <<Num(100), Num(0 - 50), 3>>
  /\ ret = Null

C25_Upside ==
  Called("calculateUpside") =>
    LET impliedPrice == call.args[1]
        currentPrice == call.args[2]
    IN /\ ret = Null <=> (currentPrice = Null \/ currentPrice = Num(0))
       /\ (ret # Null /\ impliedPrice.t = "num" /\ currentPrice.t = "num") =>
            IsPercentOf(ret, impliedPrice.v * currentPrice.d
                               - currentPrice.v * impliedPrice.d,
                        impliedPrice.d * currentPrice.d,
                        currentPrice.v, currentPrice.d)
       /\ ret # Null =>
            ret = Times(Over(Minus(impliedPrice, currentPrice), currentPrice), Num(100))

C25_Witness ==
  /\ Called("calculateUpside")
  /\ call.args = <<Num(100), Num(200)>>
  /\ ret = Num(0 - 50)

\* the characters of a symbol that are Latin letters, in either case
Letters == LowerLetters \cup UpperLetters

(***************************************************************************)
(* C26: isValidSymbol accepts a string exactly when, upper-cased, it       *)
(* consists of 1 to 5 Latin letters: the empty string, a string of 6 or    *)
(* more letters and every string that holds a digit, punctuation or white  *)
(* space are rejected, and lowercase letters are accepted like their       *)
(* uppercase forms.                                                        *)
(***************************************************************************)
C26_ValidSymbol ==
  Called("validateTicker") =>
    LET symbol == call.args[1]
    IN /\ ret <=> (/\ Len(symbol) \in 1..5
                   /\ \A i \in 1..Len(symbol) : symbol[i] \in Letters)
       /\ symbol = <<>> => ~ret
       /\ Len(symbol) >= 6 => ~ret
       /\ (\E i \in 1..Len(symbol) : symbol[i] \in {"1", ".", " "}) => ~ret
       /\ ret <=> validateTicker(toUpperCase(symbol))

C26_Witness ==
  /\ Called("validateTicker")
  /\ call.args[1] = <<"a", "B", "a", "B", "a">>
  /\ ret

SortingOperations ==
  {"calculateGrowthMetricsFromStatements", "buildTrendsSeriesFromStatements",
   "calculateFreeCashFlow", "sortReportsByDate"}

(***************************************************************************)
(* C27: no metrics or series operation mutates the fetched records: after  *)
(* calculateGrowthMetricsFromStatements, buildTrendsSeriesFromStatements,  *)
(* calculateFreeCashFlow or sortReportsByDate the report sequence handed   *)
(* in has the same elements in the same order as before the call.          *)
(***************************************************************************)
C27_InputsNotMutated ==
  call.op \in SortingOperations => passed = call.args

C27_Witness ==
  /\ Called("calculateGrowthMetricsFromStatements")
  /\ call.args[2] = "annual"
  /\ Len(call.args[1].annualReports) = 3
  /\ DateTime(call.args[1].annualReports[1].fiscalDateEnding)
       < DateTime(call.args[1].annualReports[3].fiscalDateEnding)
  /\ ret.revenueYoY # Null
  /\ passed = call.args

(***************************************************************************)
(* C28: the two numeric parsers are the same function: for every input    *)
(* (absent, null, or any string) parseNumber of the provider client and    *)
(* parseValue of the transformers return the same result.                  *)
(***************************************************************************)
C28_ParsersAgree ==
  /\ Called("parseNumber") => ret = parseValue(call.args[1])
  /\ Called("parseValue") => ret = parseNumberValue(call.args[1])

C28_Witness ==
  /\ Called("parseNumber")
  /\ call.args[1] = Text(<<"1", ".", "1">>)
  /\ ret = Rat(11, 10)
  /\ parseValue(call.args[1]) = Rat(11, 10)

\* the values of the netMargin assumption
NetMargins == {inputs.netMargin : inputs \in ForecastInputs}

(***************************************************************************)
(* C29: the forecast outputs do not depend on the netMargin assumption:    *)
(* two ForecastInputs that differ only in netMargin give identical         *)
(* outputs from runForecast.                                               *)
(***************************************************************************)
C29_NetMarginIgnored ==
  Called("runForecast") =>
    \A netMargin \in NetMargins :
       runForecast([call.args[1] EXCEPT !.netMargin = netMargin]) = ret

C29_Witness ==
  /\ Called("runForecast")
  /\ call.args[1].netMargin = Num(0 - 3)
  /\ ret.projectedNetIncome = Num(225)
  /\ runForecast([call.args[1] EXCEPT !.netMargin = Num(20)]) = ret

(***************************************************************************)
(* The watchlist in the browser's storage (lib/storage.ts).  The stored    *)
(* item is the JSON text of the list: the members of each item in turn.    *)
(***************************************************************************)
WATCHLIST_KEY == "stock-research-watchlist"

\* JSON.stringify(items) and JSON.parse(text) on a list of WatchlistItems
JSONstringify(items) ==
  [i \in 1..(2 * Len(items)) |->
     IF i % 2 = 1 THEN items[(i + 1) \div 2].ticker ELSE <<items[i \div 2].addedAt>>]
JSONparse(text) ==
  [i \in 1..(Len(text) \div 2) |->
     [ticker |-> text[2 * i - 1], addedAt |-> text[2 * i][1]]]

\* getWatchlist(): [] on the server, for a missing item and for an empty one
getWatchlist(storage) ==
  IF ~storage.window \/ ~Has(storage.items, WATCHLIST_KEY) THEN <<>>
  ELSE IF storage.items[WATCHLIST_KEY] = <<>> THEN <<>>
  ELSE JSONparse(storage.items[WATCHLIST_KEY])

\* saveWatchlist(items): the storage it leaves
saveWatchlist(storage, items) ==
  IF ~storage.window THEN storage
  ELSE Browser((WATCHLIST_KEY :> JSONstringify(items)) @@ storage.items)

\* some item of the list has the ticker
SomeTicker(watchlist, t) == \E i \in 1..Len(watchlist) : watchlist[i].ticker = t

\* addToWatchlist without the test for a ticker that is already stored
addToWatchlist_noDuplicateCheck(storage, t, now) ==
  IF ~storage.window THEN storage
  ELSE saveWatchlist(storage,
                     Append(getWatchlist(storage),
                            [ticker |-> toUpperCase(t), addedAt |-> now]))

\* addToWatchlist(ticker) at the instant now: the storage it leaves
addToWatchlist(storage, t, now) ==
  IF ~storage.window \/ SomeTicker(getWatchlist(storage), toUpperCase(t))
  THEN storage
  ELSE saveWatchlist(storage,
                     Append(getWatchlist(storage),
                            [ticker |-> toUpperCase(t), addedAt |-> now]))

\* the items that pass watchlist.filter((item) => item.ticker !== upperTicker)
RECURSIVE Without(_, _)
Without(watchlist, t) ==
  IF watchlist = <<>> THEN <<>>
  ELSE IF Head(watchlist).ticker = t THEN Without(Tail(watchlist), t)
  ELSE <<Head(watchlist)>> \o Without(Tail(watchlist), t)

\* removeFromWatchlist(ticker): the storage it leaves
removeFromWatchlist(storage, t) ==
  IF ~storage.window THEN storage
  ELSE saveWatchlist(storage, Without(getWatchlist(storage), toUpperCase(t)))

\* isInWatchlist(ticker)
isInWatchlist(storage, t) ==
  storage.window /\ SomeTicker(getWatchlist(storage), toUpperCase(t))

\* the tickers the pages call the watchlist with, and the instants of a call
WatchTickers == {<<"a">>, <<"A">>, <<"b">>, <<"a", "B">>, <<"A", "B">>}
Instants == {"2024-01-01T00:00:00.000Z", "2024-01-02T00:00:00.000Z"}

\* a call of a function of the storage module, which leaves the storage
StorageCall(op, args, storage, value) ==
  /\ call' = [op |-> op, args |-> args]
  /\ ret' = value
  /\ passed' = args
  /\ localStorage' = storage
  /\ UNCHANGED clientVars

AddToWatchlist ==
  /\ Idle
  /\ \E t \in WatchTickers, now \in Instants :
        StorageCall("addToWatchlist", <<t>>, addToWatchlist(localStorage, t, now),
                    Undefined)

RemoveFromWatchlist ==
  /\ Idle
  /\ \E t \in WatchTickers :
        StorageCall("removeFromWatchlist", <<t>>, removeFromWatchlist(localStorage, t),
                    Undefined)

IsInWatchlist ==
  /\ Idle
  /\ \E t \in WatchTickers :
        StorageCall("isInWatchlist", <<t>>, localStorage, isInWatchlist(localStorage, t))

\* a page in the browser, or its rendering on the server
WatchInit ==
  /\ API_KEY = Pool(1)
  /\ \E storage \in {Browser(<<>>), NoWindow} : Started(storage)

WatchNext ==
  \/ AddToWatchlist
  \/ RemoveFromWatchlist
  \/ IsInWatchlist
  \/ LibReturn

WatchSpec == WatchInit /\ [][WatchNext]_vars

\* the stored watchlist holds no two items with the same ticker
NoDuplicateTickers ==
  \A i, j \in 1..Len(getWatchlist(localStorage)) :
     getWatchlist(localStorage)[i].ticker = getWatchlist(localStorage)[j].ticker
       => i = j

\* every stored ticker is in upper case
StoredUpperCased ==
  \A i \in 1..Len(getWatchlist(localStorage)) :
     getWatchlist(localStorage)[i].ticker
       = toUpperCase(getWatchlist(localStorage)[i].ticker)

=============================================================================
